---------------------------- MODULE Spec2Model ----------------------------
(***************************************************************************)
(* A model of the query-time core of the PTHash minimal perfect hash       *)
(* function: compact_vector, darray, elias_fano, skew_bucketer, fastmod,   *)
(* single_phf and the essentials saver / loader visitors.                  *)
(*                                                                         *)
(* Representation of machine integers.                                     *)
(*   - A uint64_t whose bit pattern matters (a word of a bit vector or of  *)
(*     a compact_vector, a stored value, a mask, a hash) is the set of the *)
(*     positions of its 1-bits, a subset of 0..63; a __uint128_t is a      *)
(*     subset of 0..127.  The C++ operators & | ^ ~ << >> are the          *)
(*     operators And Or Xor Not64 Shl Shr below, at the real width.        *)
(*   - A uint64_t that is a size, an index or a bit position is a natural  *)
(*     number; the inputs are chosen so that it stays below 2^31.          *)
(***************************************************************************)
EXTENDS Integers, Sequences, FiniteSets, TLC

VARIABLES
    cvb,      \* compact_vector::builder  (m_size, m_width, m_mask, m_back, m_data)
    cv,       \* compact_vector           (m_size, m_width, m_mask, m_data)
    cv_in,    \* the values handed to the last build of cv
    cv_ret,   \* what the last compact_vector operation returned
    cv_it,    \* compact_vector::enumerator (m_i, m_cur_val, m_cur_block, m_cur_shift, m_vec)
    bv,       \* bit_vector B handed to darray::build and darray::select
    da,       \* darray (m_positions, m_block_inventory, m_subblock_inventory, m_overflow_positions)
    da_t,     \* the instantiation of the darray template (WordGetter, block_size, subblock_size)
    da_ret,   \* what the last darray::select returned
    ef,       \* elias_fano (m_back, m_high_bits, m_high_bits_d1, m_high_bits_d0, m_low_bits)
    ef_t,     \* the instantiation of the elias_fano template
    ef_in,    \* the sequence and universe given to elias_fano::encode
    ef_ret,   \* what the last elias_fano operation returned
    fm,       \* the arguments a, M, d of fastmod_u64
    fm_ret,   \* what the last fastmod call returned
    phf,      \* single_phf (m_seed, m_num_keys, m_table_size, m_M_128, m_M_64, m_bucketer, m_pilots, m_free_slots)
    phf_t,    \* the instantiation of the single_phf template (Minimal)
    phf_keys, \* the keys that the function was built from
    phf_ret,  \* what the last single_phf call returned, until the caller has taken it
    ser_in,   \* the values read by the build tool, one for each key
    ser_file, \* the bytes of the file that the build tool writes
    ser_phf,  \* the single_phf that the file is loaded into
    ser_ret,  \* what the last step of the build tool or of the loading program returned
    thr,      \* for every thread, the locals of the lookup that it runs
    thr_T,    \* the function-local static T of skew_bucketer::bucket
    bk,       \* skew_bucketer (m_num_dense_buckets, m_num_sparse_buckets, m_M_num_dense_buckets, m_M_num_sparse_buckets)
    bk_ret    \* what the last skew_bucketer call returned

cv_vars == <<cvb, cv, cv_in, cv_ret, cv_it>>

da_vars == <<bv, da, da_t, da_ret>>

ef_vars == <<ef, ef_t, ef_in, ef_ret>>

fm_vars == <<fm, fm_ret>>

phf_vars == <<phf, phf_t, phf_keys, phf_ret>>

ser_vars == <<ser_in, ser_file, ser_phf, ser_ret>>

thr_vars == <<thr, thr_T>>

bk_vars == <<bk, bk_ret>>

vars == <<cvb, cv, cv_in, cv_ret, cv_it, bv, da, da_t, da_ret, ef, ef_t, ef_in, ef_ret, fm, fm_ret,
          phf, phf_t, phf_keys, phf_ret, ser_in, ser_file, ser_phf, ser_ret, thr, thr_T, bk, bk_ret>>

---------------------------------------------------------------------------
(* uint64_t as a set of bit positions                                      *)

WordBits == 64

AllOnes == 0 .. (WordBits - 1)

Zero == {}

Shl(x, s) == {b + s : b \in {c \in x : c + s < WordBits}}

Shr(x, s) == {b - s : b \in {c \in x : c >= s}}

And(x, y) == x \cap y

Or(x, y) == x \cup y

Xor(x, y) == (x \ y) \cup (y \ x)

Not64(x) == AllOnes \ x

\* (uint64_t(1) << w) - 1 for w < 64
LowOnes(w) == 0 .. (w - 1)

Pow2(k) == 2 ^ k

\* the bit pattern of a natural number below 2^31
ToBits(n) == {b \in 0 .. 30 : (n \div Pow2(b)) % 2 = 1}

RECURSIVE SumPow2(_)
SumPow2(x) ==
    IF x = {} THEN 0
    ELSE LET b == CHOOSE c \in x : TRUE IN Pow2(b) + SumPow2(x \ {b})

\* the natural number of a bit pattern that fits in 31 bits
ToNat(x) == SumPow2(x)

---------------------------------------------------------------------------
(* essentials::words_for                                                   *)

words_for(bits) == (bits + WordBits - 1) \div WordBits

---------------------------------------------------------------------------
(* compact_vector                                                          *)

\* m_mask = -(w == 64) | ((uint64_t(1) << w) - 1).  For w == 64 the shift
\* count equals the width of the type; whatever the shift yields, the OR
\* with -(true) makes every bit 1.
cv_mask(w) == Or(IF w = 64 THEN AllOnes ELSE Zero, IF w = 64 THEN Zero ELSE LowOnes(w))

\* m_data[k] of a std::vector<uint64_t> held as a sequence
WordAt(data, k) == data[k + 1]

builder_init == [m_size |-> 0, m_width |-> 0, m_mask |-> Zero, m_back |-> Zero, m_data |-> <<>>]

compact_vector_init == [m_size |-> 0, m_width |-> 0, m_mask |-> Zero, m_data |-> <<>>]

\* resize without the word added for access()
builder_resize_without_extra_word(b, n, w) ==
    [b EXCEPT !.m_size = n,
              !.m_width = w,
              !.m_mask = cv_mask(w),
              !.m_back = Zero,
              !.m_data = [k \in 1 .. words_for(n * w) |->
                             IF k <= Len(b.m_data) THEN b.m_data[k] ELSE Zero]]

\* builder::resize(n, w); std::vector::resize keeps the words it already has
builder_resize(b, n, w) ==
    [b EXCEPT !.m_size = n,
              !.m_width = w,
              !.m_mask = cv_mask(w),
              !.m_back = Zero,
              !.m_data = [k \in 1 .. (words_for(n * w) + 1) |->
                             IF k <= Len(b.m_data) THEN b.m_data[k] ELSE Zero]]

\* set that ORs the value in without clearing the field first
builder_set_without_clear(b, i, v) ==
    LET pos == i * b.m_width
        block == pos \div 64
        shift == pos % 64
        res_shift == 64 - shift
        back == IF i = b.m_size - 1 THEN v ELSE b.m_back
        w0 == Or(WordAt(b.m_data, block), Shl(v, shift))
        d0 == [b.m_data EXCEPT ![block + 1] = w0]
        w1 == Or(WordAt(d0, block + 1), Shr(v, res_shift))
        d1 == IF res_shift < b.m_width THEN [d0 EXCEPT ![block + 2] = w1] ELSE d0
    IN [b EXCEPT !.m_back = back, !.m_data = d1]

\* builder::set(i, v)
builder_set(b, i, v) ==
    LET pos == i * b.m_width
        block == pos \div 64
        shift == pos % 64
        res_shift == 64 - shift
        back == IF i = b.m_size - 1 THEN v ELSE b.m_back
        w0 == Or(And(WordAt(b.m_data, block), Not64(Shl(b.m_mask, shift))), Shl(v, shift))
        d0 == [b.m_data EXCEPT ![block + 1] = w0]
        w1 == Or(And(WordAt(d0, block + 1), Not64(Shr(b.m_mask, res_shift))), Shr(v, res_shift))
        d1 == IF res_shift < b.m_width THEN [d0 EXCEPT ![block + 2] = w1] ELSE d0
    IN [b EXCEPT !.m_back = back, !.m_data = d1]

\* builder::fill(begin, n): the loop  for (i = 0; i != n; ++i) set(i, *begin)
RECURSIVE builder_fill_from(_, _, _)
builder_fill_from(b, vals, i) ==
    IF i = Len(vals) THEN b
    ELSE builder_fill_from(builder_set(b, i, vals[i + 1]), vals, i + 1)

\* builder::build(cv): hands the fields over and resets the builder
builder_build(b) == [m_size |-> b.m_size, m_width |-> b.m_width, m_mask |-> b.m_mask, m_data |-> b.m_data]

\* compact_vector::operator[](i)
compact_vector_at(c, i) ==
    LET pos == i * c.m_width
        block == pos \div 64
        shift == pos % 64
    IN IF shift + c.m_width <= 64
       THEN And(Shr(WordAt(c.m_data, block), shift), c.m_mask)
       ELSE Or(Shr(WordAt(c.m_data, block), shift),
               And(Shl(WordAt(c.m_data, block + 1), 64 - shift), c.m_mask))

\* compact_vector::access(i), with its check of block + 1 against m_data.size()
compact_vector_access_first_word_only(c, i) ==
    LET pos == i * c.m_width
        block == pos \div 64
        shift == pos % 64
    IN And(Shr(WordAt(c.m_data, block), shift), c.m_mask)

compact_vector_access(c, i) ==
    LET pos == i * c.m_width
        block == pos \div 64
        shift == pos % 64
    IN IF shift + c.m_width <= 64
       THEN And(Shr(WordAt(c.m_data, block), shift), c.m_mask)
       ELSE IF block + 1 < Len(c.m_data)
            THEN Or(Shr(WordAt(c.m_data, block), shift),
                    And(Shl(WordAt(c.m_data, block + 1), 64 - shift), c.m_mask))
            ELSE And(Shr(WordAt(c.m_data, block), shift), c.m_mask)

\* the resize of m_data to n words at the end of reduce_width_by
data_resize(data, n) == [k \in 1 .. n |-> IF k <= Len(data) THEN data[k] ELSE Zero]

\* old_elem of the loop of reduce_width_by
reduce_old_elem(data, pos, old_width, old_mask) ==
    IF (pos % 64) + old_width <= 64
    THEN And(Shr(WordAt(data, pos \div 64), pos % 64), old_mask)
    ELSE Or(Shr(WordAt(data, pos \div 64), pos % 64),
            And(Shl(WordAt(data, (pos \div 64) + 1), 64 - (pos % 64)), old_mask))

\* the loop of reduce_width_by: for (i = 0, pos = 0; i < m_size; ++i, pos += old_width)
RECURSIVE reduce_loop(_, _, _, _, _)
reduce_loop(b, i, pos, old_width, old_mask) ==
    IF i >= b.m_size THEN b
    ELSE reduce_loop(builder_set(b, i, And(reduce_old_elem(b.m_data, pos, old_width, old_mask), b.m_mask)),
                     i + 1, pos + old_width, old_width, old_mask)

\* reduce_width_by with m_mask left at the mask of the old width
builder_reduce_width_by_keeps_mask(b, n) ==
    [reduce_loop([b EXCEPT !.m_width = b.m_width - n], 0, 0, b.m_width, b.m_mask)
        EXCEPT !.m_data = data_resize(@, words_for(b.m_size * (b.m_width - n)) + 1)]

\* builder::reduce_width_by(n)
builder_reduce_width_by(b, n) ==
    [reduce_loop([b EXCEPT !.m_width = b.m_width - n, !.m_mask = cv_mask(b.m_width - n)],
                 0, 0, b.m_width, b.m_mask)
        EXCEPT !.m_data = data_resize(@, words_for(b.m_size * (b.m_width - n)) + 1)]

\* enumerator(): no member is given a value; m_vec tells whether the
\* enumerator was made for a vector
enumerator_init == [m_vec |-> "none", m_i |-> 0, m_cur_val |-> Zero, m_cur_block |-> 0, m_cur_shift |-> 0]

\* m_vec->m_data[k] read by the enumerator; a read outside the vector
\* yields whatever word lies there
enumerator_word(data, k, junk) == IF k < Len(data) THEN data[k + 1] ELSE junk

\* the indices of the words that enumerator::read reads
enumerator_words(c, it) ==
    {it.m_cur_block} \cup (IF it.m_cur_shift + c.m_width <= 64 THEN {} ELSE {it.m_cur_block + 1})

\* the end of enumerator::read: m_cur_shift += m_width and the step to the
\* next word when m_cur_shift == 64
enumerator_advance(it, val, block, shift) ==
    [it EXCEPT !.m_cur_val = val,
               !.m_cur_block = IF shift = 64 THEN block + 1 ELSE block,
               !.m_cur_shift = IF shift = 64 THEN 0 ELSE shift]

\* enumerator::read that stays in its word after an element that crosses
enumerator_read_stays_in_block(c, it, junk) ==
    IF it.m_cur_shift + c.m_width <= 64
    THEN enumerator_advance(it,
             And(Shr(enumerator_word(c.m_data, it.m_cur_block, junk), it.m_cur_shift), c.m_mask),
             it.m_cur_block, it.m_cur_shift + c.m_width)
    ELSE enumerator_advance(it,
             Or(Shr(enumerator_word(c.m_data, it.m_cur_block, junk), it.m_cur_shift),
                And(Shl(enumerator_word(c.m_data, it.m_cur_block + 1, junk), 64 - it.m_cur_shift), c.m_mask)),
             it.m_cur_block, (0 - (64 - it.m_cur_shift)) + c.m_width)

\* enumerator::read()
enumerator_read(c, it, junk) ==
    IF it.m_cur_shift + c.m_width <= 64
    THEN enumerator_advance(it,
             And(Shr(enumerator_word(c.m_data, it.m_cur_block, junk), it.m_cur_shift), c.m_mask),
             it.m_cur_block, it.m_cur_shift + c.m_width)
    ELSE enumerator_advance(it,
             Or(Shr(enumerator_word(c.m_data, it.m_cur_block, junk), it.m_cur_shift),
                And(Shl(enumerator_word(c.m_data, it.m_cur_block + 1, junk), 64 - it.m_cur_shift), c.m_mask)),
             it.m_cur_block + 1, (0 - (64 - it.m_cur_shift)) + c.m_width)

\* the member initialisers of enumerator(vec, i)
enumerator_at(c, i) ==
    [m_vec |-> "cv", m_i |-> i, m_cur_val |-> Zero,
     m_cur_block |-> (i * c.m_width) \div 64, m_cur_shift |-> (i * c.m_width) % 64]

\* enumerator(vec, i)
enumerator_new(c, i, junk) ==
    IF i >= c.m_size THEN enumerator_at(c, i) ELSE enumerator_read(c, enumerator_at(c, i), junk)

\* the indices of the words that enumerator(vec, i) reads
enumerator_new_words(c, i) == IF i >= c.m_size THEN {} ELSE enumerator_words(c, enumerator_at(c, i))

\* enumerator::operator++
enumerator_next(c, it, junk) == enumerator_read(c, [it EXCEPT !.m_i = it.m_i + 1], junk)

\* the indices of the words that compact_vector::operator[](i) reads
compact_vector_at_words(c, i) ==
    {(i * c.m_width) \div 64}
        \cup (IF ((i * c.m_width) % 64) + c.m_width <= 64 THEN {} ELSE {((i * c.m_width) \div 64) + 1})

\* whether compact_vector::access(i) takes the branch for block + 1 >= m_data.size()
compact_vector_access_fallback(c, i) ==
    /\ ((i * c.m_width) % 64) + c.m_width > 64
    /\ ~(((i * c.m_width) \div 64) + 1 < Len(c.m_data))

\* the packed word stream of a vector of words, as one set of bit positions
PackedStream(data) == UNION {{64 * (k - 1) + b : b \in data[k]} : k \in 1 .. Len(data)}

\* the integer held in bits [lo, lo + w) of the packed stream
StreamField(data, lo, w) == {b - lo : b \in {c \in PackedStream(data) : lo <= c /\ c < lo + w}}

---------------------------------------------------------------------------
(* Integers wider than the model checker's: little-endian sequences of     *)
(* bytes, 8 for a uint64_t and 16 for a __uint128_t, as they lie in memory *)
(* on the little-endian hosts the library is built for.                    *)

Digit(x, k) == IF k <= Len(x) THEN x[k] ELSE 0

\* the statements of the source run in their order: the values of steps
\* are computed, one after the other, and then e
InOrder(steps, e) == IF Len(steps) >= 0 THEN e ELSE e

BigZero(n) == [k \in 1 .. n |-> 0] \o <<>>

\* x cut or zero-extended to n bytes: the conversion to an n-byte type
BigFit(x, n) == IF Len(x) = n THEN x ELSE [k \in 1 .. n |-> Digit(x, k)] \o <<>>

\* the bytes above the first n: a right shift by 8n bits
BigHigh(x, n) == IF n >= Len(x) THEN <<>> ELSE SubSeq(x, n + 1, Len(x))

\* carries (or borrows) pushed through the column sums lo .. hi, one half
\* of the range after the other: [d |-> the bytes, carry |-> what leaves
\* the last column]
RECURSIVE BigCarryRange(_, _, _, _)
BigCarryRange(cols, lo, hi, carry) ==
    IF lo = hi
    THEN LET c == cols[lo] + carry IN [d |-> <<c % 256>>, carry |-> c \div 256]
    ELSE LET mid == (lo + hi) \div 2
             low == BigCarryRange(cols, lo, mid, carry)
             high == BigCarryRange(cols, mid + 1, hi, low.carry)
         IN [d |-> low.d \o high.d, carry |-> high.carry]

\* what leaves the last column is dropped, as in unsigned arithmetic of
\* that width
BigCarry(cols) == IF Len(cols) = 0 THEN <<>> ELSE BigCarryRange(cols, 1, Len(cols), 0).d

Min(a, b) == IF a < b THEN a ELSE b

\* the sum of x[i] * y[k + 1 - i] over i in lo .. hi: column k of the product
RECURSIVE BigColumn(_, _, _, _, _)
BigColumn(x, y, k, lo, hi) ==
    IF lo > hi THEN 0
    ELSE IF lo = hi THEN x[lo] * Digit(y, k + 1 - lo)
         ELSE LET mid == (lo + hi) \div 2
              IN BigColumn(x, y, k, lo, mid) + BigColumn(x, y, k, mid + 1, hi)

\* the n low bytes of the product
BigMulLow(x, y, n) ==
    IF Len(x) = 0 \/ Len(y) = 0 THEN BigZero(n)
    ELSE BigCarry([k \in 1 .. n |-> BigColumn(x, y, k, 1, Min(Len(x), k))] \o <<>>)

\* the full product, Len(x) + Len(y) bytes
BigMul(x, y) == BigMulLow(x, y, Len(x) + Len(y))

\* x + y modulo 256^n
BigAdd(x, y, n) ==
    IF Len(x) = 0 THEN BigFit(y, n)
    ELSE IF Len(y) = 0 THEN BigFit(x, n)
         ELSE BigCarry([k \in 1 .. n |-> Digit(x, k) + Digit(y, k)] \o <<>>)

\* x - y modulo 256^n
BigSub(x, y, n) ==
    IF Len(y) = 0 THEN BigFit(x, n)
    ELSE BigCarry([k \in 1 .. n |-> Digit(x, k) - Digit(y, k)] \o <<>>)

BigLess(x, y) ==
    \E k \in 1 .. (Len(x) + Len(y)) :
        /\ Digit(x, k) < Digit(y, k)
        /\ \A j \in (k + 1) .. (Len(x) + Len(y)) : Digit(x, j) = Digit(y, j)

BigEq(x, y) == \A k \in 1 .. (Len(x) + Len(y)) : Digit(x, k) = Digit(y, k)

\* a natural below 2^16 as bytes
BigOfNat(n) == <<n % 256, n \div 256>>

\* the largest c below 256 with c * d <= r1, found bit by bit
RECURSIVE BigQuotientByte(_, _, _, _)
BigQuotientByte(r1, d, bit, c) ==
    IF bit < 0 THEN c
    ELSE IF BigLess(r1, BigMul(d, BigOfNat(c + Pow2(bit))))
         THEN BigQuotientByte(r1, d, bit - 1, c)
         ELSE BigQuotientByte(r1, d, bit - 1, c + Pow2(bit))

\* long division of x by d > 0 over the bytes hi down to lo of x, one byte
\* of the quotient at a time, with the remainder r of the bytes above hi:
\* [q |-> the bytes of the quotient, r |-> the remainder].  The remainder
\* of the upper half is below d when the lower half takes it.
RECURSIVE BigDivFrom(_, _, _, _, _)
BigDivFrom(x, d, hi, lo, r) ==
    IF hi = lo
    THEN LET r1 == <<Digit(x, hi)>> \o r
             qd == BigQuotientByte(r1, d, 7, 0)
         IN [q |-> <<qd>>, r |-> BigSub(r1, BigMul(d, BigOfNat(qd)), Len(d))]
    ELSE LET mid == (lo + hi) \div 2
             high == BigDivFrom(x, d, hi, mid + 1, r)
             low == BigDivFrom(x, d, mid, lo, high.r)
         IN IF BigLess(high.r, d) THEN [q |-> low.q \o high.q, r |-> low.r] ELSE high

\* the same division for a divisor below 2^16, whose remainders fit in
\* the integers of the model checker
RECURSIVE BigDivShort(_, _, _, _, _)
BigDivShort(x, d, hi, lo, r) ==
    IF hi = lo
    THEN LET r1 == 256 * r + Digit(x, hi) IN [q |-> <<r1 \div d>>, r |-> r1 % d]
    ELSE LET mid == (lo + hi) \div 2
             high == BigDivShort(x, d, hi, mid + 1, r)
             low == BigDivShort(x, d, mid, lo, high.r)
         IN IF high.r < d THEN [q |-> low.q \o high.q, r |-> low.r] ELSE high

\* [q |-> floor(x / d), r |-> x mod d] for d > 0
BigDivMod(x, d) ==
    IF \A k \in 3 .. Len(d) : d[k] = 0
    THEN LET res == BigDivShort(x, Digit(d, 1) + 256 * Digit(d, 2), Len(x), 1, 0)
         IN [q |-> res.q, r |-> BigFit(BigOfNat(res.r), Len(d))]
    ELSE BigDivFrom(x, d, Len(x), 1, BigZero(Len(d)))

\* the uint64_t with the decimal digits lo .. hi of ds after those that
\* gave acc, most significant first
RECURSIVE DecFrom(_, _, _, _)
DecFrom(ds, lo, hi, acc) ==
    IF lo = hi THEN BigAdd(BigMul(acc, <<10>>), <<ds[lo]>>, 8)
    ELSE LET mid == (lo + hi) \div 2
             first == DecFrom(ds, lo, mid, acc)
         IN IF Len(first) = 8 THEN DecFrom(ds, mid + 1, hi, first) ELSE first

Dec(ds) == DecFrom(ds, 1, Len(ds), BigZero(8))

\* uint64_t as a set of bit positions and as bytes
BytesOfBits(x, n) == [k \in 1 .. n |-> ToNat({b \in 0 .. 7 : (8 * (k - 1) + b) \in x})] \o <<>>

BitsOfBytes(x) == {c \in 0 .. (8 * Len(x) - 1) : (x[(c \div 8) + 1] \div Pow2(c % 8)) % 2 = 1}

\* a uint64_t and a __uint128_t
IsU64(x) == Len(x) = 8

IsU128(x) == Len(x) = 16

---------------------------------------------------------------------------
(* fastmod                                                                 *)

\* fastmod::computeM_u64(d): floor(2^128 / d) + 1 as a 128-bit value
computeM_u64(d) == BigAdd(BigDivMod(BigZero(16) \o <<1>>, d).q, <<1>>, 16)

\* fastmod_u64 that forgets the lower half of lowbits
fastmod_u64_top_half_only(a, M, d) ==
    CASE IsU64(a) /\ IsU128(M) /\ IsU64(d) ->
        BigFit(BigHigh(BigFit(BigMul(BigHigh(BigMulLow(M, a, 16), 8), d), 16), 8), 8)

\* mul128_u64(lowbits, d): bottom_half = (lowbits & UINT64_MAX) * d >> 64,
\* top_half = (lowbits >> 64) * d, and (bottom_half + top_half) >> 64
mul128_u64(lowbits, d) ==
    InOrder(<<lowbits, d>>,
            BigFit(BigHigh(BigAdd(BigFit(BigHigh(BigFit(BigMul(BigFit(lowbits, 8), d), 16), 8), 16),
                                  BigFit(BigMul(BigHigh(lowbits, 8), d), 16), 16), 8), 8))

\* fastmod_u64(a, M, d): lowbits = M * a, then mul128_u64(lowbits, d)
fastmod_u64(a, M, d) ==
    CASE IsU64(a) /\ IsU128(M) /\ IsU64(d) -> mul128_u64(BigMulLow(M, a, 16), d)

\* static_cast<__uint128_t>(m_high) << 64 | m_low
MakeM(m_high, m_low) == m_low \o m_high

---------------------------------------------------------------------------
(* 64-bit values that are hashes: 8 bytes; sizes and positions: naturals   *)

\* uint64_t(n) for a natural n < 2^31
U64OfNat(n) == [k \in 1 .. 8 |-> IF k <= 4 THEN (n \div Pow2(8 * (k - 1))) % 256 ELSE 0] \o <<>>

\* the natural that a uint64_t below 2^31 holds
NatOfU64(x) == Digit(x, 1) + 256 * Digit(x, 2) + 65536 * Digit(x, 3) + 16777216 * Digit(x, 4)

\* the operations on uint64_t operands
Mul64(x, y) == CASE IsU64(x) /\ IsU64(y) -> BigMulLow(x, y, 8)

Xor64(x, y) == CASE IsU64(x) /\ IsU64(y) -> BytesOfBits(Xor(BitsOfBytes(x), BitsOfBytes(y)), 8)

Shr64(x, r) == CASE IsU64(x) -> BytesOfBits(Shr(BitsOfBytes(x), r), 8)

---------------------------------------------------------------------------
(* Hasher: MurmurHash2, 64-bit version, on one 8-byte word                 *)

\* 0xc6a4a7935bd1e995
MurmurM == <<149, 233, 209, 91, 147, 167, 164, 198>>

MurmurR == 47

\* MurmurHash2_64(&val, sizeof(uint64_t), seed)
\* k ^= k >> r
MurmurShiftXor(k) == InOrder(<<k>>, Xor64(k, Shr64(k, MurmurR)))

\* the one word of the data: k *= m; k ^= k >> r; k *= m
MurmurWord(k) == Mul64(MurmurShiftXor(Mul64(k, MurmurM)), MurmurM)

\* after the words: h ^= h >> r; h *= m; h ^= h >> r
MurmurFinal(h) == MurmurShiftXor(Mul64(MurmurShiftXor(h), MurmurM))

\* MurmurHash2_64(&val, sizeof(uint64_t), seed): h = seed ^ (len * m),
\* then h ^= k; h *= m for the word k, then the final mixing
MurmurHash2_64(val, seed) ==
    MurmurFinal(Mul64(Xor64(Xor64(seed, Mul64(U64OfNat(8), MurmurM)), MurmurWord(val)), MurmurM))

\* murmurhash2_64::hash(key, seed): a hash64, whose first() and second()
\* are the same 64 bits
hash64(h) == [first |-> h, second |-> h]

murmurhash2_64(key, seed) == hash64(MurmurHash2_64(key, seed))

\* default_hash64(val, seed)
default_hash64(val, seed) == InOrder(<<val, seed>>, MurmurHash2_64(val, seed))

---------------------------------------------------------------------------
(* skew_bucketer                                                           *)

\* constants::a * static_cast<double>(UINT64_MAX) as a uint64_t, a = 0.6:
\* the double nearest to 0.6 times 2^64
skew_T == Dec(<<1, 1, 0, 6, 8, 0, 4, 6, 4, 4, 4, 2, 2, 5, 7, 3, 0, 5, 6, 0>>)

\* uint64_t(constants::b * num_buckets), b = 0.3, in double arithmetic
\* (equal to floor(3 * num_buckets / 10) for every num_buckets used here)
skew_dense_of(num_buckets) == (3 * num_buckets) \div 10

skew_bucketer_init ==
    [m_num_dense_buckets |-> 0, m_num_sparse_buckets |-> 0,
     m_M_num_dense_buckets |-> BigZero(16), m_M_num_sparse_buckets |-> BigZero(16)]

\* init(num_buckets, ...) that takes every bucket as a sparse one
skew_bucketer_do_init_all_sparse(num_buckets) ==
    [m_num_dense_buckets |-> skew_dense_of(num_buckets),
     m_num_sparse_buckets |-> num_buckets,
     m_M_num_dense_buckets |-> IF skew_dense_of(num_buckets) > 0
                               THEN computeM_u64(U64OfNat(skew_dense_of(num_buckets))) ELSE BigZero(16),
     m_M_num_sparse_buckets |-> computeM_u64(U64OfNat(num_buckets))]

\* skew_bucketer::init(num_buckets, lambda, table_size, alpha)
skew_bucketer_do_init(num_buckets) ==
    LET dense == skew_dense_of(num_buckets)
        sparse == num_buckets - dense
    IN [m_num_dense_buckets |-> dense,
        m_num_sparse_buckets |-> sparse,
        m_M_num_dense_buckets |-> IF dense > 0 THEN computeM_u64(U64OfNat(dense)) ELSE BigZero(16),
        m_M_num_sparse_buckets |-> IF sparse > 0 THEN computeM_u64(U64OfNat(sparse)) ELSE BigZero(16)]

\* floor(0.6 * 2^64)
skew_T_floor == Dec(<<1, 1, 0, 6, 8, 0, 4, 6, 4, 4, 4, 2, 2, 5, 7, 3, 0, 9, 6, 9>>)

\* bucket(hash) with the threshold floor(0.6 * 2^64)
skew_bucketer_bucket_floor_T(b, hash) ==
    IF BigLess(hash, skew_T_floor)
    THEN NatOfU64(fastmod_u64(hash, b.m_M_num_dense_buckets, U64OfNat(b.m_num_dense_buckets)))
    ELSE b.m_num_dense_buckets
         + NatOfU64(fastmod_u64(hash, b.m_M_num_sparse_buckets, U64OfNat(b.m_num_sparse_buckets)))

\* skew_bucketer::bucket(hash)
skew_bucketer_bucket(b, hash) ==
    IF BigLess(hash, skew_T)
    THEN NatOfU64(fastmod_u64(hash, b.m_M_num_dense_buckets, U64OfNat(b.m_num_dense_buckets)))
    ELSE b.m_num_dense_buckets
         + NatOfU64(fastmod_u64(hash, b.m_M_num_sparse_buckets, U64OfNat(b.m_num_sparse_buckets)))

\* skew_bucketer::num_buckets()
skew_bucketer_num_buckets(b) == b.m_num_dense_buckets + b.m_num_sparse_buckets

---------------------------------------------------------------------------
(* bit_vector: num_bits bits in 64-bit words, bit p in word p >> 6 at      *)
(* shift p & 63.  The content is held as a background bit (fill) and the   *)
(* set of positions that differ from it (diff); the bits of the last word  *)
(* at positions >= num_bits are 0.                                         *)

bit_vector_init == [num_bits |-> 0, fill |-> 0, diff |-> {}]

bv_get(B, p) == p < B.num_bits /\ ((B.fill = 1) # (p \in B.diff))

\* B.data().size()
bv_num_words(B) == words_for(B.num_bits)

\* B.data()[k]
bv_word(B, k) == {b \in 0 .. 63 : bv_get(B, 64 * k + b)}

\* util::identity_getter, util::negating_getter
GetWord(getter, B, k) == IF getter = "negating" THEN Not64(bv_word(B, k)) ELSE bv_word(B, k)

\* util::popcount
popcount(x) == Cardinality(x)

\* util::select_in_word(x, k): the position of the (k+1)-th 1-bit of x
select_in_word(x, k) == CHOOSE b \in x : Cardinality({c \in x : c < b}) = k

\* uint16_t(x)
U16(x) == x % 65536

\* i & (m - 1) on naturals
BitAndNat(i, m) == ToNat(And(ToBits(i), ToBits(m)))

---------------------------------------------------------------------------
(* darray<WordGetter, block_size, subblock_size>                           *)

\* the template defaults, used by darray1 and darray0
block_size_default == 1024

subblock_size_default == 32

darray_init == [m_positions |-> 0, m_block_inventory |-> <<>>, m_subblock_inventory |-> <<>>, m_overflow_positions |-> <<>>]

\* The positions that the two loops of build() collect, in the order in
\* which they collect them: word after word and, inside a word, from the
\* lowest 1-bit of WordGetter()(data, word_idx) up, leaving the word at the
\* first position >= B.num_bits().
IndexedBits(B, getter) ==
    IF (getter = "negating") = (B.fill = 1)
    THEN {p \in B.diff : p < B.num_bits}
    ELSE {p \in 0 .. (B.num_bits - 1) : p \notin B.diff}

\* the elements of S, all in [lo, hi), in increasing order
RECURSIVE SortedSeq(_, _, _)
SortedSeq(S, lo, hi) ==
    IF S = {} THEN <<>>
    ELSE IF hi - lo = 1 THEN <<lo>>
         ELSE LET mid == (lo + hi) \div 2
              IN SortedSeq({p \in S : p < mid}, lo, mid) \o SortedSeq({p \in S : p >= mid}, mid, hi)

CeilDiv(a, b) == (a + b - 1) \div b

\* flush_cur_block that takes the overflow offset after the positions
\* were appended
flush_cur_block_offset_after_append(cur, inv, sbs) ==
    IF cur[Len(cur)] - cur[1] < 65536
    THEN [inv EXCEPT
            !.block_inventory = Append(@, cur[1]),
            !.subblock_inventory = @ \o [j \in 1 .. CeilDiv(Len(cur), sbs) |-> U16(cur[(j - 1) * sbs + 1] - cur[1])]]
    ELSE [inv EXCEPT
            !.block_inventory = Append(@, (0 - (Len(inv.overflow_positions) + Len(cur))) - 1),
            !.overflow_positions = @ \o cur,
            !.subblock_inventory = @ \o [j \in 1 .. CeilDiv(Len(cur), sbs) |-> U16(0 - 1)]]

\* flush_cur_block that takes a block of span 65536 as dense
flush_cur_block_dense_up_to_65536(cur, inv, sbs) ==
    IF cur[Len(cur)] - cur[1] <= 65536
    THEN [inv EXCEPT
            !.block_inventory = Append(@, cur[1]),
            !.subblock_inventory = @ \o [j \in 1 .. CeilDiv(Len(cur), sbs) |-> U16(cur[(j - 1) * sbs + 1] - cur[1])]]
    ELSE [inv EXCEPT
            !.block_inventory = Append(@, (0 - Len(inv.overflow_positions)) - 1),
            !.overflow_positions = @ \o cur,
            !.subblock_inventory = @ \o [j \in 1 .. CeilDiv(Len(cur), sbs) |-> U16(0 - 1)]]

\* darray::flush_cur_block, on the locals of build held in inv
flush_cur_block(cur, inv, sbs) ==
    IF cur[Len(cur)] - cur[1] < 65536
    THEN [inv EXCEPT
            !.block_inventory = Append(@, cur[1]),
            !.subblock_inventory = @ \o [j \in 1 .. CeilDiv(Len(cur), sbs) |-> U16(cur[(j - 1) * sbs + 1] - cur[1])]]
    ELSE [inv EXCEPT
            !.block_inventory = Append(@, (0 - Len(inv.overflow_positions)) - 1),
            !.overflow_positions = @ \o cur,
            !.subblock_inventory = @ \o [j \in 1 .. CeilDiv(Len(cur), sbs) |-> U16(0 - 1)]]

\* the flushes of build(): one each time cur_block_positions reaches
\* block_size, and one for what is left after the last word
RECURSIVE build_flushes(_, _, _, _, _)
build_flushes(P, from, inv, bs, sbs) ==
    IF from > Len(P) THEN inv
    ELSE LET to == IF from + bs - 1 < Len(P) THEN from + bs - 1 ELSE Len(P)
         IN build_flushes(P, to + 1, flush_cur_block(SubSeq(P, from, to), inv, sbs), bs, sbs)

\* build(B) that counts the bits of the last word beyond B.num_bits()
darray_build_counts_padding(d, B, t) ==
    LET P == SortedSeq(IndexedBits(B, t.getter), 0, B.num_bits)
        inv == build_flushes(P, 1, [block_inventory |-> <<>>, subblock_inventory |-> <<>>, overflow_positions |-> <<>>],
                             t.block_size, t.subblock_size)
    IN [m_positions |-> d.m_positions + Len(P)
                        + (IF t.getter = "negating" THEN 64 * bv_num_words(B) - B.num_bits ELSE 0),
        m_block_inventory |-> inv.block_inventory,
        m_subblock_inventory |-> inv.subblock_inventory,
        m_overflow_positions |-> inv.overflow_positions]

\* darray::build(B)
darray_build(d, B, t) ==
    LET P == SortedSeq(IndexedBits(B, t.getter), 0, B.num_bits)
        inv == build_flushes(P, 1, [block_inventory |-> <<>>, subblock_inventory |-> <<>>, overflow_positions |-> <<>>],
                             t.block_size, t.subblock_size)
    IN [m_positions |-> d.m_positions + Len(P),
        m_block_inventory |-> inv.block_inventory,
        m_subblock_inventory |-> inv.subblock_inventory,
        m_overflow_positions |-> inv.overflow_positions]

\* the while (true) loop of select()
RECURSIVE select_scan(_, _, _, _, _, _)
select_scan(B, getter, word_idx, word, reminder, loop_count) ==
    IF loop_count > (B.num_bits \div 64) + 2 THEN [val |-> 0, path |-> "error: scan limit"]
    ELSE IF reminder < popcount(word)
         THEN [val |-> 64 * word_idx + select_in_word(word, reminder), path |-> "dense scan"]
         ELSE IF word_idx + 1 >= bv_num_words(B) THEN [val |-> 0, path |-> "error: next word"]
              ELSE select_scan(B, getter, word_idx + 1, GetWord(getter, B, word_idx + 1),
                               reminder - popcount(word), loop_count + 1)

\* select(B, i) without the mask that clears the bits below start_pos in
\* the first word scanned
darray_select_unmasked(d, B, i, t) ==
    LET block == i \div t.block_size
    IN IF block >= Len(d.m_block_inventory) THEN [val |-> 0, path |-> "error: block"]
       ELSE LET block_pos == d.m_block_inventory[block + 1]
            IN IF block_pos < 0
               THEN LET overflow_pos == (0 - block_pos) - 1
                        final_overflow_idx == overflow_pos + BitAndNat(i, t.block_size - 1)
                    IN IF final_overflow_idx >= Len(d.m_overflow_positions)
                       THEN [val |-> 0, path |-> "error: overflow"]
                       ELSE [val |-> d.m_overflow_positions[final_overflow_idx + 1], path |-> "sparse"]
               ELSE LET subblock == i \div t.subblock_size
                    IN IF subblock >= Len(d.m_subblock_inventory) THEN [val |-> 0, path |-> "error: subblock"]
                       ELSE LET start_pos == block_pos + d.m_subblock_inventory[subblock + 1]
                                reminder == BitAndNat(i, t.subblock_size - 1)
                                word_idx == start_pos \div 64
                                word_shift == start_pos % 64
                            IN IF reminder = 0 THEN [val |-> start_pos, path |-> "dense start"]
                               ELSE IF word_idx >= bv_num_words(B) THEN [val |-> 0, path |-> "error: first word"]
                                    ELSE select_scan(B, t.getter, word_idx,
                                                     GetWord(t.getter, B, word_idx),
                                                     reminder, 1)

\* darray::select(B, i)
darray_select(d, B, i, t) ==
    LET block == i \div t.block_size
    IN IF block >= Len(d.m_block_inventory) THEN [val |-> 0, path |-> "error: block"]
       ELSE LET block_pos == d.m_block_inventory[block + 1]
            IN IF block_pos < 0
               THEN LET overflow_pos == (0 - block_pos) - 1
                        final_overflow_idx == overflow_pos + BitAndNat(i, t.block_size - 1)
                    IN IF final_overflow_idx >= Len(d.m_overflow_positions)
                       THEN [val |-> 0, path |-> "error: overflow"]
                       ELSE [val |-> d.m_overflow_positions[final_overflow_idx + 1], path |-> "sparse"]
               ELSE LET subblock == i \div t.subblock_size
                    IN IF subblock >= Len(d.m_subblock_inventory) THEN [val |-> 0, path |-> "error: subblock"]
                       ELSE LET start_pos == block_pos + d.m_subblock_inventory[subblock + 1]
                                reminder == BitAndNat(i, t.subblock_size - 1)
                                word_idx == start_pos \div 64
                                word_shift == start_pos % 64
                            IN IF reminder = 0 THEN [val |-> start_pos, path |-> "dense start"]
                               ELSE IF word_idx >= bv_num_words(B) THEN [val |-> 0, path |-> "error: first word"]
                                    ELSE select_scan(B, t.getter, word_idx,
                                                     And(GetWord(t.getter, B, word_idx), Shl(AllOnes, word_shift)),
                                                     reminder, 1)

\* typedef darray<util::identity_getter> darray1
darray1 == [getter |-> "identity", block_size |-> block_size_default, subblock_size |-> subblock_size_default]

\* typedef darray<util::negating_getter> darray0
darray0 == [getter |-> "negating", block_size |-> block_size_default, subblock_size |-> subblock_size_default]

---------------------------------------------------------------------------
(* elias_fano<index_zeros, encode_prefix_sum, DArray1, DArray0>            *)

\* util::msb(x), x > 0: the position of the highest 1-bit
msb(x) == CHOOSE b \in 0 .. 30 : Pow2(b) <= x /\ x < 2 * Pow2(b)

\* the default argument uint64_t(-1) of encode
UniverseDefault == 0 - 1

elias_fano_init ==
    [m_back |-> 0, m_high_bits |-> bit_vector_init, m_high_bits_d1 |-> darray_init,
     m_high_bits_d0 |-> darray_init, m_low_bits |-> compact_vector_init]

RECURSIVE SumFirst(_, _)
SumFirst(vals, n) == IF n = 0 THEN 0 ELSE SumFirst(vals, n - 1) + vals[n]

\* the loop of encode with the high bit of element i set at v >> l
RECURSIVE encode_loop_high_bit_without_index(_, _, _, _, _, _, _)
encode_loop_high_bit_without_index(vals, i, n, l, num_bits, st, t) ==
    IF i = n \/ st.thrown THEN st
    ELSE LET v == IF t.encode_prefix_sum THEN vals[i + 1] + st.last ELSE vals[i + 1]
             k == IF t.encode_prefix_sum THEN i + 1 ELSE i
             high_pos == v \div Pow2(l)
         IN IF ~t.encode_prefix_sum /\ i # 0 /\ v < st.last
            THEN [st EXCEPT !.thrown = TRUE]
            ELSE encode_loop_high_bit_without_index(vals, i + 1, n, l, num_bits,
                     [last |-> v,
                      cvb_low_bits |-> IF l # 0 THEN builder_set(st.cvb_low_bits, k, ToBits(v % Pow2(l)))
                                       ELSE st.cvb_low_bits,
                      bvb_high_bits |-> st.bvb_high_bits \cup {high_pos},
                      thrown |-> FALSE,
                      out_of_range |-> st.out_of_range \/ high_pos >= num_bits], t)

\* the for loop of encode(); st holds last, the two builders, whether the
\* order check has thrown, and whether bvb_high_bits.set was given a
\* position outside the num_bits bits of the builder
RECURSIVE encode_loop(_, _, _, _, _, _, _)
encode_loop(vals, i, n, l, num_bits, st, t) ==
    IF i = n \/ st.thrown THEN st
    ELSE LET v == IF t.encode_prefix_sum THEN vals[i + 1] + st.last ELSE vals[i + 1]
             k == IF t.encode_prefix_sum THEN i + 1 ELSE i
             high_pos == (v \div Pow2(l)) + k
         IN IF ~t.encode_prefix_sum /\ i # 0 /\ v < st.last
            THEN [st EXCEPT !.thrown = TRUE]
            ELSE encode_loop(vals, i + 1, n, l, num_bits,
                     [last |-> v,
                      cvb_low_bits |-> IF l # 0 THEN builder_set(st.cvb_low_bits, k, ToBits(v % Pow2(l)))
                                       ELSE st.cvb_low_bits,
                      bvb_high_bits |-> st.bvb_high_bits \cup {high_pos},
                      thrown |-> FALSE,
                      out_of_range |-> st.out_of_range \/ high_pos >= num_bits], t)

\* elias_fano::encode(begin, n, universe)
elias_fano_encode(e, vals, n, universe, t) ==
    IF n = 0 THEN [ef |-> e, error |-> "none", out_of_range |-> FALSE]
    ELSE LET U == IF t.encode_prefix_sum THEN SumFirst(vals, n)
                  ELSE IF universe = UniverseDefault THEN vals[n] ELSE universe
             n1 == IF t.encode_prefix_sum THEN n + 1 ELSE n
             l == IF n1 # 0 /\ U \div n1 # 0 THEN msb(U \div n1) ELSE 0
             num_bits == n1 + (U \div Pow2(l)) + 1
             cvb0 == builder_resize(builder_init, n1, l)
             st0 == IF t.encode_prefix_sum
                    THEN [last |-> 0, cvb_low_bits |-> IF l # 0 THEN builder_set(cvb0, 0, Zero) ELSE cvb0,
                          bvb_high_bits |-> {0}, thrown |-> FALSE, out_of_range |-> FALSE]
                    ELSE [last |-> 0, cvb_low_bits |-> cvb0, bvb_high_bits |-> {}, thrown |-> FALSE,
                          out_of_range |-> FALSE]
             st == encode_loop(vals, 0, n, l, num_bits, st0, t)
             high_bits == [num_bits |-> num_bits, fill |-> 0, diff |-> st.bvb_high_bits]
         IN IF st.thrown THEN [ef |-> e, error |-> "sequence is not sorted", out_of_range |-> st.out_of_range]
            ELSE [ef |-> [m_back |-> st.last,
                          m_high_bits |-> high_bits,
                          m_high_bits_d1 |-> darray_build(e.m_high_bits_d1, high_bits, t.DArray1),
                          m_high_bits_d0 |-> IF t.index_zeros
                                             THEN darray_build(e.m_high_bits_d0, high_bits, t.DArray0)
                                             ELSE e.m_high_bits_d0,
                          m_low_bits |-> builder_build(st.cvb_low_bits)],
                  error |-> "none", out_of_range |-> st.out_of_range]

\* elias_fano::size()
elias_fano_size(e) == e.m_low_bits.m_size

\* access(i) without the low bits
elias_fano_access_high_only(e, i, t) ==
    LET select_result == darray_select(e.m_high_bits_d1, e.m_high_bits, i, t.DArray1).val
        high_val == select_result - i
    IN ToNat(Shl(ToBits(high_val), e.m_low_bits.m_width))

\* elias_fano::access(i)
elias_fano_access(e, i, t) ==
    LET select_result == darray_select(e.m_high_bits_d1, e.m_high_bits, i, t.DArray1).val
        high_val == select_result - i
        low_val == compact_vector_access(e.m_low_bits, i)
    IN ToNat(Or(Shl(ToBits(high_val), e.m_low_bits.m_width), low_val))

\* uint64_t(-1), and what 0 - 1 and (0 - 1) + 1 wrap to
uint64_minus_1 == 0 - 1

\* bit_vector::iterator::next() from the cursor pos: the position of the
\* first 1 at pos or after it, after which the cursor is one past that
\* position; num_bits where there is none
bit_vector_iterator_next(B, pos) ==
    CHOOSE p \in pos .. B.num_bits :
        (p = B.num_bits \/ bv_get(B, p)) /\ \A q \in pos .. (p - 1) : ~bv_get(B, q)

\* bit_vector::iterator::prev(pos): the position of the last 1 at pos or
\* before it
bit_vector_iterator_prev(B, pos) ==
    CHOOSE p \in (0 - 1) .. pos :
        (p = 0 - 1 \/ bv_get(B, p)) /\ \A q \in (p + 1) .. pos : ~bv_get(B, q)

\* (high << l) | low
ef_value(high, l, low) == ToNat(Or(Shl(ToBits(high), l), low))

\* elias_fano::iterator()
iterator_init == [m_pos |-> 0, m_l |-> 0, m_val |-> 0, m_high_bits_it |-> 0, m_low_bits_it |-> 0]

\* iterator::read_next_value(), high being m_high_bits_it.next()
iterator_read(e, it, high) ==
    [it EXCEPT !.m_val = ef_value(high - it.m_pos, it.m_l, compact_vector_at(e.m_low_bits, it.m_low_bits_it)),
               !.m_high_bits_it = high + 1,
               !.m_low_bits_it = it.m_low_bits_it + 1]

iterator_read_next_value(e, it) ==
    iterator_read(e, it, bit_vector_iterator_next(e.m_high_bits, it.m_high_bits_it))

\* iterator::iterator(ef, pos)
elias_fano_get_iterator_at(e, pos, t) ==
    IF ~(pos < elias_fano_size(e)) \/ e.m_high_bits_d1.m_positions = 0
    THEN [iterator_init EXCEPT !.m_pos = pos, !.m_l = e.m_low_bits.m_width]
    ELSE iterator_read_next_value(e, [m_pos |-> pos, m_l |-> e.m_low_bits.m_width, m_val |-> 0,
                                      m_high_bits_it |->
                                          darray_select(e.m_high_bits_d1, e.m_high_bits, pos, t.DArray1).val,
                                      m_low_bits_it |-> pos])

\* iterator::next()
iterator_next(e, it) ==
    IF ~(it.m_pos + 1 < elias_fano_size(e)) THEN [it EXCEPT !.m_pos = it.m_pos + 1]
    ELSE iterator_read_next_value(e, [it EXCEPT !.m_pos = it.m_pos + 1])

\* iterator::prev_value()
iterator_prev_value(e, it) ==
    ef_value(bit_vector_iterator_prev(e.m_high_bits, it.m_high_bits_it - 2) - (it.m_pos - 1), it.m_l,
             compact_vector_at(e.m_low_bits, it.m_low_bits_it - 2))

\* the end of diff(i), pos being m_high_bits_d1.select(m_high_bits, i)
elias_fano_diff_from(e, i, pos) ==
    ef_value(bit_vector_iterator_next(e.m_high_bits, pos + 1) - i - 1, e.m_low_bits.m_width,
             compact_vector_access(e.m_low_bits, i + 1))
    - ef_value(pos - i, e.m_low_bits.m_width, compact_vector_access(e.m_low_bits, i))

\* diff(i) that reads the low bits of element i twice
elias_fano_diff_one_low(e, i, t) ==
    ef_value(bit_vector_iterator_next(e.m_high_bits,
                                      darray_select(e.m_high_bits_d1, e.m_high_bits, i, t.DArray1).val + 1) - i - 1,
             e.m_low_bits.m_width, compact_vector_access(e.m_low_bits, i))
    - ef_value(darray_select(e.m_high_bits_d1, e.m_high_bits, i, t.DArray1).val - i, e.m_low_bits.m_width,
               compact_vector_access(e.m_low_bits, i))

\* elias_fano::diff(i)
elias_fano_diff(e, i, t) ==
    elias_fano_diff_from(e, i, darray_select(e.m_high_bits_d1, e.m_high_bits, i, t.DArray1).val)

\* the loop  while (val < x) { ++pos; it.next(); val = it.value(); }  of
\* next_geq_leftmost; a loop that goes on at size() - 1 is marked
RECURSIVE next_geq_scan(_, _, _, _)
next_geq_scan(e, x, pos, it) ==
    IF it.m_val < x
    THEN IF pos + 1 >= elias_fano_size(e)
         THEN [ret |-> [pos |-> pos + 1, val |-> it.m_val], it |-> iterator_next(e, it), past_the_end |-> TRUE]
         ELSE next_geq_scan(e, x, pos + 1, iterator_next(e, it))
    ELSE [ret |-> [pos |-> pos, val |-> it.m_val], it |-> it, past_the_end |-> FALSE]

\* the start of the scan of next_geq_leftmost
next_geq_begin(e, h_x, t) ==
    IF h_x # 0 THEN darray_select(e.m_high_bits_d0, e.m_high_bits, h_x - 1, t.DArray0).val - h_x + 1 ELSE 0

next_geq_from(e, x, begin, t) ==
    InOrder(<<begin>>, next_geq_scan(e, x, begin, elias_fano_get_iterator_at(e, begin, t)))

\* next_geq_leftmost(x) that saturates from back() on
next_geq_leftmost_saturates_at_back(e, x, t) ==
    IF x >= e.m_back
    THEN [ret |-> [pos |-> elias_fano_size(e) - 1, val |-> e.m_back], it |-> iterator_init, past_the_end |-> FALSE]
    ELSE next_geq_from(e, x, next_geq_begin(e, x \div Pow2(e.m_low_bits.m_width), t), t)

\* elias_fano::next_geq_leftmost(x)
next_geq_leftmost(e, x, t) ==
    IF x > e.m_back
    THEN [ret |-> [pos |-> elias_fano_size(e) - 1, val |-> e.m_back], it |-> iterator_init, past_the_end |-> FALSE]
    ELSE next_geq_from(e, x, next_geq_begin(e, x \div Pow2(e.m_low_bits.m_width), t), t)

\* the do-while of next_geq_rightmost, then  ret.pos -= 1; ret.val = x
RECURSIVE rightmost_scan(_, _, _, _)
rightmost_next(e, x, pos, it) ==
    IF it.m_val = x THEN rightmost_scan(e, x, pos, it)
    ELSE [ret |-> [pos |-> pos - 1, val |-> x], it |-> it, past_the_end |-> FALSE]

rightmost_scan(e, x, pos, it) ==
    IF pos + 1 = elias_fano_size(e)
    THEN [ret |-> [pos |-> pos + 1 - 1, val |-> x], it |-> it, past_the_end |-> FALSE]
    ELSE rightmost_next(e, x, pos + 1, iterator_next(e, it))

\* the end of next_geq_rightmost, r being what next_geq_leftmost returned
next_geq_rightmost_of(e, x, r) ==
    IF r.ret.val = x /\ r.ret.pos # elias_fano_size(e) - 1
    THEN rightmost_scan(e, x, r.ret.pos, r.it)
    ELSE r

\* elias_fano::next_geq_rightmost(x)
next_geq_rightmost(e, x, t) == next_geq_rightmost_of(e, x, next_geq_leftmost(e, x, t))

\* elias_fano::next_geq(x)
elias_fano_next_geq(e, x, t) == next_geq_leftmost(e, x, t).ret

\* the end of prev_leq, r being what next_geq_rightmost returned
prev_leq_of(e, x, r) ==
    IF r.ret.val > x
    THEN [pos |-> r.ret.pos - 1, val |-> IF r.ret.pos # 0 THEN iterator_prev_value(e, r.it) ELSE uint64_minus_1]
    ELSE r.ret

\* prev_leq(x) that keeps what next_geq_rightmost found
elias_fano_prev_leq_without_step_back(e, x, t) == next_geq_rightmost(e, x, t).ret

\* elias_fano::prev_leq(x)
elias_fano_prev_leq(e, x, t) == prev_leq_of(e, x, next_geq_rightmost(e, x, t))

\* the end of locate, lo being the first half of what it returns
locate_hi(e, lo, it) ==
    [lo |-> lo,
     hi |-> IF lo.pos # elias_fano_size(e) - 1 THEN [pos |-> lo.pos + 1, val |-> it.m_val]
            ELSE [pos |-> uint64_minus_1, val |-> uint64_minus_1]]

locate_of(e, x, r) == locate_hi(e, prev_leq_of(e, x, r), r.it)

\* elias_fano::locate(x)
elias_fano_locate(e, x, t) == locate_of(e, x, next_geq_rightmost(e, x, t))

---------------------------------------------------------------------------
(* Encoder: dictionary_dictionary, a dual of two dictionaries, each made   *)
(* of the compact_vectors ranks and dict                                   *)

\* std::ceil(std::log2(max + 1)) for max > 0
CeilLog2(x) == CHOOSE w \in 0 .. 31 : Pow2(w) >= x /\ (w = 0 \/ Pow2(w - 1) < x)

MaxOf(S) == CHOOSE x \in S : \A y \in S : y <= x

\* compact_vector::build(begin, n), which takes the width from the largest value
compact_vector_build_auto(vals) ==
    LET max == MaxOf({vals[k] : k \in 1 .. Len(vals)})
        width == IF max = 0 THEN 1 ELSE CeilLog2(max + 1)
    IN builder_build(builder_fill_from(builder_resize(builder_init, Len(vals), width),
                                       [k \in 1 .. Len(vals) |-> ToBits(vals[k])], 0))

dictionary_init == [m_ranks |-> compact_vector_init, m_dict |-> compact_vector_init]

\* dictionary::encode(begin, n): the distinct values by decreasing
\* frequency, and for every element the rank of its value
dictionary_encode(vals) ==
    IF Len(vals) = 0 THEN dictionary_init
    ELSE LET D == {vals[k] : k \in 1 .. Len(vals)}
             freq(v) == Cardinality({k \in 1 .. Len(vals) : vals[k] = v})
             rank(v) == Cardinality({u \in D : freq(u) > freq(v) \/ (freq(u) = freq(v) /\ u < v)})
             dict == [r \in 1 .. Cardinality(D) |-> CHOOSE v \in D : rank(v) = r - 1]
             ranks == [k \in 1 .. Len(vals) |-> rank(vals[k])]
         IN [m_ranks |-> compact_vector_build_auto(ranks), m_dict |-> compact_vector_build_auto(dict)]

dictionary_size(d) == d.m_ranks.m_size

\* dictionary::access(i)
dictionary_access(d, i) ==
    ToNat(compact_vector_access(d.m_dict, ToNat(compact_vector_access(d.m_ranks, i))))

dual_init == [m_front |-> dictionary_init, m_back |-> dictionary_init]

\* dual::encode(begin, n): the first 0.3 * n values in front, the others in back
dual_encode(vals) ==
    LET front_size == (3 * Len(vals)) \div 10
    IN [m_front |-> dictionary_encode(SubSeq(vals, 1, front_size)),
        m_back |-> dictionary_encode(SubSeq(vals, front_size + 1, Len(vals)))]

\* dual::access(i)
dual_access(e, i) ==
    IF i < dictionary_size(e.m_front) THEN dictionary_access(e.m_front, i)
    ELSE dictionary_access(e.m_back, i - dictionary_size(e.m_front))

---------------------------------------------------------------------------
(* internal_memory_builder_single_phf with xor displacement                *)

MaxPilot == 15

\* the slots of the keys of one bucket, given by their second hashes,
\* under the hashed pilot
builder_slots(h2s, hashed_pilot, cfg) ==
    InOrder(<<hashed_pilot>>,
            {NatOfU64(fastmod_u64(Xor64(h2, hashed_pilot), cfg.M, U64OfNat(cfg.table_size))) : h2 \in h2s})

builder_positions(h2s, pilot, cfg) ==
    builder_slots(h2s, default_hash64(U64OfNat(pilot), cfg.seed), cfg)

\* the keys of the bucket fall on distinct slots, none of them taken
builder_fit(slots, h2s, taken) ==
    InOrder(<<slots>>, Cardinality(slots) = Cardinality(h2s) /\ slots \cap taken = {})

\* the first pilot of those that fit, with the slots that it gives
builder_first_pilot(fitting, h2s, cfg) ==
    InOrder(<<fitting>>,
            IF fitting = {} THEN [ok |-> FALSE, pilot |-> MaxPilot + 1, slots |-> {}]
            ELSE [ok |-> TRUE,
                  pilot |-> CHOOSE p \in fitting : \A q \in fitting : p <= q,
                  slots |-> builder_positions(h2s, CHOOSE p \in fitting : \A q \in fitting : p <= q, cfg)])

\* the smallest pilot that sends the keys of one bucket to distinct slots
\* that are not taken
builder_search_pilot(h2s, cfg, taken) ==
    builder_first_pilot({p \in 0 .. MaxPilot : builder_fit(builder_positions(h2s, p, cfg), h2s, taken)},
                        h2s, cfg)

\* the bucket b with its pilot, if one was found, and then the buckets
\* after the k-th
RECURSIVE builder_search(_, _, _, _, _, _, _)
builder_search_from(found, b, order, k, hashes, bucket_of, cfg, taken, pilots) ==
    InOrder(<<found>>,
            IF ~found.ok THEN [ok |-> FALSE, taken |-> taken, pilots |-> pilots]
            ELSE builder_search(order, k + 1, hashes, bucket_of, cfg,
                                taken \cup found.slots, [pilots EXCEPT ![b + 1] = found.pilot]))

\* the search: the buckets by decreasing size, each given its pilot
builder_search(order, k, hashes, bucket_of, cfg, taken, pilots) ==
    IF k > Len(order) THEN [ok |-> TRUE, taken |-> taken, pilots |-> pilots]
    ELSE builder_search_from(builder_search_pilot({hashes[i].second :
                                                      i \in {j \in 1 .. Len(hashes) : bucket_of[j] = order[k]}},
                                                  cfg, taken),
                             order[k], order, k, hashes, bucket_of, cfg, taken, pilots)

\* fill_free_slots: for every slot from num_keys on, a free slot below num_keys
RECURSIVE fill_free_slots(_, _, _, _, _, _, _)
fill_free_slots(taken, num_keys, table_size, next_used_slot, last_free_slot, last_valid_free_slot, free_slots) ==
    IF last_free_slot < num_keys /\ last_free_slot \in taken
    THEN fill_free_slots(taken, num_keys, table_size, next_used_slot, last_free_slot + 1,
                         last_valid_free_slot, free_slots)
    ELSE IF last_free_slot = num_keys
         THEN free_slots \o [k \in 1 .. (table_size - next_used_slot) |-> last_valid_free_slot]
         ELSE IF next_used_slot \notin taken
              THEN fill_free_slots(taken, num_keys, table_size, next_used_slot + 1, last_free_slot,
                                   last_valid_free_slot, Append(free_slots, last_free_slot))
              ELSE fill_free_slots(taken, num_keys, table_size, next_used_slot + 1, last_free_slot + 1,
                                   last_free_slot, Append(free_slots, last_free_slot))

\* the number of keys of bucket b
bucket_size(bucket_of, b) == Cardinality({i \in 1 .. Len(bucket_of) : bucket_of[i] = b})

\* the number of buckets that come before b: the larger ones, and of
\* those of its size the ones of smaller index
bucket_before(bucket_of, num_buckets, b) ==
    Cardinality({c \in 0 .. (num_buckets - 1) :
                    \/ bucket_size(bucket_of, c) > bucket_size(bucket_of, b)
                    \/ bucket_size(bucket_of, c) = bucket_size(bucket_of, b) /\ c < b})

\* the buckets that hold a key, by decreasing size
bucket_order(bucket_of, num_buckets) ==
    SelectSeq([k \in 1 .. num_buckets |->
                  CHOOSE b \in 0 .. (num_buckets - 1) : bucket_before(bucket_of, num_buckets, b) = k - 1],
              LAMBDA b : bucket_size(bucket_of, b) > 0)

\* what the builder holds after the search: found.taken are the slots of
\* the keys and found.pilots the pilots of the buckets
builder_result(found, num_keys, seed, table_size, bucketer, hashes) ==
    InOrder(<<found>>,
            [ok |-> found.ok /\ Cardinality({hashes[i].first : i \in 1 .. num_keys}) = num_keys,
             seed |-> seed, num_keys |-> num_keys, table_size |-> table_size,
             bucketer |-> bucketer, pilots |-> found.pilots, taken |-> found.taken,
             free_slots |->
                 IF \/ ~found.ok
                    \/ Cardinality({hashes[i].first : i \in 1 .. num_keys}) # num_keys
                    \/ table_size <= num_keys
                 THEN <<>>
                 ELSE fill_free_slots(found.taken, num_keys, table_size, num_keys, 0, 0, <<>>)])

\* the keys mapped to their buckets, and the search over the buckets
builder_map(bucket_of, hashes, seed, table_size, bucketer, num_buckets) ==
    InOrder(<<bucket_of>>,
            builder_result(builder_search(bucket_order(bucket_of, num_buckets), 1, hashes, bucket_of,
                                          [seed |-> seed, M |-> computeM_u64(U64OfNat(table_size)),
                                           table_size |-> table_size],
                                          {}, [b \in 1 .. num_buckets |-> 0]),
                           Len(hashes), seed, table_size, bucketer, hashes))

\* the keys hashed, and then mapped
builder_hash(hashes, seed, table_size, bucketer, num_buckets) ==
    InOrder(<<hashes, bucketer>>,
            builder_map([i \in 1 .. Len(hashes) |-> skew_bucketer_bucket(bucketer, hashes[i].first)] \o <<>>,
                        hashes, seed, table_size, bucketer, num_buckets))

\* build_from_keys(keys, num_keys, config), the seed, the table size and
\* the number of buckets being those that the configuration leads to
builder_build_from_keys(keys, seed, table_size, num_buckets) ==
    builder_hash([i \in 1 .. Len(keys) |-> murmurhash2_64(keys[i], seed)] \o <<>>,
                 seed, table_size, skew_bucketer_do_init(num_buckets), num_buckets)

---------------------------------------------------------------------------
(* single_phf<murmurhash2_64, skew_bucketer, dictionary_dictionary,        *)
(*            Minimal, xor_displacement>                                   *)

\* fastmod::computeM_u32(d): the 64-bit reciprocal, floor(2^64 / d) + 1
computeM_u32(d) == BigAdd(BigDivMod(BigZero(8) \o <<1>>, d).q, <<1>>, 8)

\* bits::elias_fano<false, false>, the type of m_free_slots
free_slots_t == [index_zeros |-> FALSE, encode_prefix_sum |-> FALSE, DArray1 |-> darray1, DArray0 |-> darray0]

single_phf_init ==
    [m_seed |-> BigZero(8), m_num_keys |-> 0, m_table_size |-> 0, m_M_128 |-> BigZero(16),
     m_M_64 |-> BigZero(8), m_bucketer |-> skew_bucketer_init, m_pilots |-> dual_init,
     m_free_slots |-> elias_fano_init]

\* build(builder, config) that encodes one free slot less
single_phf_build_one_slot_less(f, builder, config, Minimal) ==
    IF Minimal # config.minimal
    THEN [phf |-> f, error |-> "template parameter 'Minimal' must be equal to config.minimal"]
    ELSE IF config.search # "xor_displacement"
         THEN [phf |-> f, error |-> "template parameter 'Search' must be equal to config.search"]
         ELSE [phf |-> [m_seed |-> builder.seed,
                        m_num_keys |-> builder.num_keys,
                        m_table_size |-> builder.table_size,
                        m_M_128 |-> computeM_u64(U64OfNat(builder.table_size)),
                        m_M_64 |-> computeM_u32(U64OfNat(builder.table_size)),
                        m_bucketer |-> builder.bucketer,
                        m_pilots |-> dual_encode(builder.pilots),
                        m_free_slots |->
                            IF Minimal /\ builder.num_keys < builder.table_size
                            THEN elias_fano_encode(f.m_free_slots, builder.free_slots,
                                                   builder.table_size - builder.num_keys - 1,
                                                   UniverseDefault, free_slots_t).ef
                            ELSE f.m_free_slots],
               error |-> "none"]

\* single_phf::build(builder, config)
single_phf_build(f, builder, config, Minimal) ==
    IF Minimal # config.minimal
    THEN [phf |-> f, error |-> "template parameter 'Minimal' must be equal to config.minimal"]
    ELSE IF config.search # "xor_displacement"
         THEN [phf |-> f, error |-> "template parameter 'Search' must be equal to config.search"]
         ELSE [phf |-> [m_seed |-> builder.seed,
                        m_num_keys |-> builder.num_keys,
                        m_table_size |-> builder.table_size,
                        m_M_128 |-> computeM_u64(U64OfNat(builder.table_size)),
                        m_M_64 |-> computeM_u32(U64OfNat(builder.table_size)),
                        m_bucketer |-> builder.bucketer,
                        m_pilots |-> dual_encode(builder.pilots),
                        m_free_slots |->
                            IF Minimal /\ builder.num_keys < builder.table_size
                            THEN elias_fano_encode(f.m_free_slots, builder.free_slots,
                                                   builder.table_size - builder.num_keys,
                                                   UniverseDefault, free_slots_t).ef
                            ELSE f.m_free_slots],
               error |-> "none"]

\* single_phf::position_raw(hash): bucket, pilot, hashed_pilot, and
\* fastmod_u64(hash.second() ^ hashed_pilot, m_M_128, m_table_size)
single_phf_position_raw(f, hash) ==
    InOrder(<<hash>>,
            NatOfU64(fastmod_u64(Xor64(hash.second,
                                       default_hash64(U64OfNat(dual_access(f.m_pilots,
                                                                           skew_bucketer_bucket(f.m_bucketer,
                                                                                                hash.first))),
                                                      f.m_seed)),
                                 f.m_M_128, U64OfNat(f.m_table_size))))

\* the end of position(hash) that does not remap the slot num_keys
single_phf_minimal_remaps_late(f, p, Minimal) ==
    InOrder(<<p>>,
            IF Minimal
            THEN IF p <= f.m_num_keys THEN p
                 ELSE elias_fano_access(f.m_free_slots, p - f.m_num_keys, free_slots_t)
            ELSE p)

\* the end of position(hash): if constexpr (Minimal), p < num_keys is
\* returned and any other p is looked up in m_free_slots
single_phf_minimal(f, p, Minimal) ==
    InOrder(<<p>>,
            IF Minimal
            THEN IF p < f.m_num_keys THEN p
                 ELSE elias_fano_access(f.m_free_slots, p - f.m_num_keys, free_slots_t)
            ELSE p)

\* the start of position(hash): bucket_id, pilot, hashed_pilot,
\* xor_result = hash.second() ^ hashed_pilot, and
\* p = fastmod_u64(xor_result, m_M_128, m_table_size)
single_phf_xor_displacement(f, hash) ==
    InOrder(<<hash>>,
            NatOfU64(fastmod_u64(Xor64(hash.second,
                                       default_hash64(U64OfNat(dual_access(f.m_pilots,
                                                                           skew_bucketer_bucket(f.m_bucketer,
                                                                                                hash.first))),
                                                      f.m_seed)),
                                 f.m_M_128, U64OfNat(f.m_table_size))))

\* position(hash) that does not remap the slot num_keys
single_phf_position_remaps_late(f, hash, Minimal) ==
    single_phf_minimal_remaps_late(f, single_phf_xor_displacement(f, hash), Minimal)

\* position(hash) that returns the raw position also when Minimal
single_phf_position_without_remap(f, hash, Minimal) == single_phf_xor_displacement(f, hash)

\* single_phf::position(hash)
single_phf_position(f, hash, Minimal) ==
    single_phf_minimal(f, single_phf_xor_displacement(f, hash), Minimal)

\* single_phf::operator()(key)
single_phf_call(f, key, Minimal) == single_phf_position(f, murmurhash2_64(key, f.m_seed), Minimal)

---------------------------------------------------------------------------
(* essentials: the saver and loader visitors over a stream of bytes. The   *)
(* types are named by the width of the field and by what the model holds   *)
(* for it: "u64" a natural, "u64w" the 8 bytes, "u64b" the set of bits,    *)
(* "u128" the 16 bytes, "i64" an integer, "u16" a natural                  *)

PodTypes == {"u64", "u64w", "u64b", "u128", "i64", "u16"}

VecTypes == {"vec_u64", "vec_u64b", "vec_i64", "vec_u16"}

\* T of std::vector<T>
VecElem(type) ==
    CASE type = "vec_u64" -> "u64"
      [] type = "vec_u64b" -> "u64b"
      [] type = "vec_i64" -> "i64"
      [] type = "vec_u16" -> "u16"

\* sizeof(T)
pod_bytes(type) == CASE type = "u128" -> 16 [] type = "u16" -> 2 [] OTHER -> 8

\* the bytes of val in memory with the high half of a __uint128_t first
PodMemory_high_limb_first(type, val) ==
    CASE type = "u64" -> U64OfNat(val)
      [] type = "u64w" -> BigFit(val, 8)
      [] type = "u64b" -> BytesOfBits(val, 8)
      [] type = "u128" -> BigFit(BigHigh(val, 8), 8) \o BigFit(val, 8)
      [] type = "i64" -> IF val >= 0 THEN U64OfNat(val) ELSE BigSub(BigZero(8), U64OfNat(0 - val), 8)
      [] type = "u16" -> <<val % 256, (val \div 256) % 256>>

\* the bytes of val in memory, lowest byte first
PodMemory(type, val) ==
    CASE type = "u64" -> U64OfNat(val)
      [] type = "u64w" -> BigFit(val, 8)
      [] type = "u64b" -> BytesOfBits(val, 8)
      [] type = "u128" -> BigFit(val, 16)
      [] type = "i64" -> IF val >= 0 THEN U64OfNat(val) ELSE BigSub(BigZero(8), U64OfNat(0 - val), 8)
      [] type = "u16" -> <<val % 256, (val \div 256) % 256>>

\* whether the 8 bytes hold a value from 2^31 on
IsHuge(x) == x[4] >= 128 \/ \E k \in 5 .. 8 : x[k] # 0

\* the value whose bytes in memory are x
PodValue(type, x) ==
    CASE type = "u64" -> NatOfU64(x)
      [] type = "u64w" -> x
      [] type = "u64b" -> BitsOfBytes(x)
      [] type = "u128" -> x
      [] type = "i64" -> IF x[8] >= 128 THEN 0 - NatOfU64(BigSub(BigZero(8), x, 8)) ELSE NatOfU64(x)
      [] type = "u16" -> x[1] + 256 * x[2]

\* the pieces of a sequence of sequences lo .. hi, one after the other
RECURSIVE ConcatRange(_, _, _)
ConcatRange(parts, lo, hi) ==
    IF lo > hi THEN <<>>
    ELSE IF lo = hi THEN parts[lo]
    ELSE LET mid == (lo + hi) \div 2
         IN ConcatRange(parts, lo, mid) \o ConcatRange(parts, mid + 1, hi)

ConcatAll(parts) == IF Len(parts) = 0 THEN <<>> ELSE ConcatRange(parts, 1, Len(parts))

\* save_pod(os, val): os.write of the sizeof(T) bytes of val
save_pod(os, type, val) == os \o PodMemory(type, val)

\* visit_impl of each type: the members in the order they are visited
single_phf_visit_impl ==
    << <<"m_seed", "u64w">>, <<"m_num_keys", "u64">>, <<"m_table_size", "u64">>, <<"m_M_128", "u128">>,
       <<"m_M_64", "u64w">>, <<"m_bucketer", "skew_bucketer">>, <<"m_pilots", "dual">>,
       <<"m_free_slots", "elias_fano">> >>

skew_bucketer_visit_impl ==
    << <<"m_num_dense_buckets", "u64">>, <<"m_num_sparse_buckets", "u64">>,
       <<"m_M_num_dense_buckets", "u128">>, <<"m_M_num_sparse_buckets", "u128">> >>

\* visit_impl of elias_fano with the index on the zeros first
elias_fano_visit_impl_d0_first ==
    << <<"m_back", "u64">>, <<"m_high_bits", "bit_vector">>, <<"m_high_bits_d0", "darray">>,
       <<"m_high_bits_d1", "darray">>, <<"m_low_bits", "compact_vector">> >>

elias_fano_visit_impl ==
    << <<"m_back", "u64">>, <<"m_high_bits", "bit_vector">>, <<"m_high_bits_d1", "darray">>,
       <<"m_high_bits_d0", "darray">>, <<"m_low_bits", "compact_vector">> >>

darray_visit_impl ==
    << <<"m_positions", "u64">>, <<"m_block_inventory", "vec_i64">>, <<"m_subblock_inventory", "vec_u16">>,
       <<"m_overflow_positions", "vec_u64">> >>

compact_vector_visit_impl ==
    << <<"m_size", "u64">>, <<"m_width", "u64">>, <<"m_mask", "u64b">>, <<"m_data", "vec_u64b">> >>

bit_vector_visit_impl == << <<"m_num_bits", "u64">>, <<"m_data", "vec_u64b">> >>

dictionary_visit_impl == << <<"m_ranks", "compact_vector">>, <<"m_dict", "compact_vector">> >>

dual_visit_impl == << <<"m_front", "dictionary">>, <<"m_back", "dictionary">> >>

visit_impl(type) ==
    CASE type = "single_phf" -> single_phf_visit_impl
      [] type = "skew_bucketer" -> skew_bucketer_visit_impl
      [] type = "elias_fano" -> elias_fano_visit_impl
      [] type = "darray" -> darray_visit_impl
      [] type = "compact_vector" -> compact_vector_visit_impl
      [] type = "bit_vector" -> bit_vector_visit_impl
      [] type = "dictionary" -> dictionary_visit_impl
      [] type = "dual" -> dual_visit_impl

\* the member of an object; a bit_vector is held as its bits, and its
\* members are its length and the words of its data
Member(type, val, name) ==
    IF type = "bit_vector"
    THEN IF name = "m_num_bits" THEN val.num_bits
         ELSE [k \in 1 .. bv_num_words(val) |-> bv_word(val, k - 1)] \o <<>>
    ELSE val[name]

\* the object made of its members
OfMembers(type, members) ==
    IF type = "bit_vector"
    THEN [num_bits |-> members.m_num_bits, fill |-> 0, diff |-> PackedStream(members.m_data)]
    ELSE members

\* generic_saver::visit(val) and visit(vec): the bytes that are written
RECURSIVE generic_saver_visit(_, _)
generic_saver_visit(type, val) ==
    IF type \in PodTypes THEN save_pod(<<>>, type, val)
    ELSE IF type \in VecTypes
    THEN save_pod(<<>>, "u64", Len(val))
         \o ConcatAll([k \in 1 .. Len(val) |-> PodMemory(VecElem(type), val[k])] \o <<>>)
    ELSE LET members == visit_impl(type)
         IN ConcatAll([k \in 1 .. Len(members) |->
                          generic_saver_visit(members[k][2], Member(type, val, members[k][1]))] \o <<>>)

\* essentials::save(data_structure, filename): the bytes of the file
essentials_save(type, val) == generic_saver_visit(type, val)

\* std::istream over the bytes of a file
istream_open(data) == [data |-> data, pos |-> 0, good |-> TRUE, thrown |-> "none"]

\* is.read(s, n), s holding the bytes old: the bytes of s afterwards. A
\* stream that has failed reads nothing; a stream that ends early gives the
\* bytes it has, leaves the others of s as they were and fails
istream_read(is, n, old) ==
    IF ~is.good THEN [bytes |-> old, is |-> is]
    ELSE IF is.pos + n <= Len(is.data)
    THEN [bytes |-> SubSeq(is.data, is.pos + 1, is.pos + n), is |-> [is EXCEPT !.pos = is.pos + n]]
    ELSE [bytes |-> SubSeq(is.data, is.pos + 1, Len(is.data)) \o SubSeq(old, Len(is.data) - is.pos + 1, n),
          is |-> [is EXCEPT !.pos = Len(is.data), !.good = FALSE]]

\* load_pod(is, val) that reads 8 bytes whatever the type
load_pod_reads_8_bytes(is, type, val) ==
    LET r == istream_read(is, 8, PodMemory(type, val))
    IN [val |-> PodValue(type, r.bytes \o SubSeq(PodMemory(type, val), 9, pod_bytes(type))), is |-> r.is]

\* load_pod(is, val)
load_pod(is, type, val) ==
    LET r == istream_read(is, pod_bytes(type), PodMemory(type, val))
    IN [val |-> PodValue(type, r.bytes), is |-> r.is]

\* generic_loader::visit(vec): size_t n is not initialised and holds the
\* bytes junk before it is read; vec.resize(n) throws when n is out of reach
generic_loader_visit_vec(type, vec, is, junk) ==
    LET size == pod_bytes(VecElem(type))
        count == istream_read(is, 8, junk)
        n == NatOfU64(count.bytes)
        resized == [k \in 1 .. n |->
                       IF k <= Len(vec) THEN PodMemory(VecElem(type), vec[k])
                       ELSE [b \in 1 .. size |-> 0] \o <<>>] \o <<>>
        r == istream_read(count.is, size * n, ConcatAll(resized))
    IN IF IsHuge(count.bytes)
       THEN [val |-> vec, is |-> [count.is EXCEPT !.thrown = "std::length_error or std::bad_alloc"]]
       ELSE InOrder(<<n, resized, r>>,
                    [val |-> [k \in 1 .. n |->
                                 PodValue(VecElem(type), SubSeq(r.bytes, size * (k - 1) + 1, size * k))] \o <<>>,
                     is |-> r.is])

\* the names of the members of a type
MemberNames(type) == {visit_impl(type)[k][1] : k \in 1 .. Len(visit_impl(type))}

\* generic_loader::visit(val) and val.visit(loader): the members are read
\* in the order of visit_impl, until something is thrown
RECURSIVE generic_loader_visit(_, _, _, _)
RECURSIVE generic_loader_members(_, _, _, _, _)
generic_loader_members(type, k, members, is, junk) ==
    IF k > Len(visit_impl(type)) \/ is.thrown # "none" THEN [val |-> members, is |-> is]
    ELSE LET name == visit_impl(type)[k][1]
             r == generic_loader_visit(visit_impl(type)[k][2], members[name], is, junk)
         IN InOrder(<<r>>, generic_loader_members(type, k + 1, [members EXCEPT ![name] = r.val], r.is, junk))

generic_loader_visit(type, val, is, junk) ==
    IF type \in PodTypes THEN load_pod(is, type, val)
    ELSE IF type \in VecTypes THEN generic_loader_visit_vec(type, val, is, junk)
    ELSE LET r == generic_loader_members(type, 1, [name \in MemberNames(type) |-> Member(type, val, name)],
                                         is, junk)
         IN [val |-> OfMembers(type, r.val), is |-> r.is]

\* essentials::load(data_structure, filename) on the bytes of the file
essentials_load(type, val, data, junk) == generic_loader_visit(type, val, istream_open(data), junk)

---------------------------------------------------------------------------
(* The objects after construction                                          *)

CvIdle == [op |-> "none"]

\* the compact_vector variables after construction
CvStart ==
    /\ cvb = builder_init
    /\ cv = compact_vector_init
    /\ cv_in = <<>>
    /\ cv_ret = CvIdle
    /\ cv_it = enumerator_init

DaIdle == [op |-> "none"]

\* the darray variables after construction
DaStart ==
    /\ bv = bit_vector_init
    /\ da = darray_init
    /\ da_t = darray1
    /\ da_ret = DaIdle

EfIdle == [op |-> "none"]

\* the elias_fano variables after construction
EfStart ==
    /\ ef = elias_fano_init
    /\ ef_t = [index_zeros |-> FALSE, encode_prefix_sum |-> FALSE, DArray1 |-> darray1, DArray0 |-> darray0]
    /\ ef_in = [vals |-> <<>>, universe |-> UniverseDefault]
    /\ ef_ret = EfIdle

FmIdle == [op |-> "none"]

\* the fastmod variables before any call
FmStart ==
    /\ fm = [a |-> BigZero(8), M |-> BigZero(16), d |-> BigFit(<<1>>, 8)]
    /\ fm_ret = FmIdle

PhfIdle == [op |-> "none"]

\* the single_phf variables after construction
PhfStart ==
    /\ phf = single_phf_init
    /\ phf_t = [Minimal |-> TRUE]
    /\ phf_keys = <<>>
    /\ phf_ret = PhfIdle

SerIdle == [op |-> "none"]

\* the build tool and the loading program before they run
SerStart ==
    /\ ser_in = <<>>
    /\ ser_file = <<>>
    /\ ser_phf = single_phf_init
    /\ ser_ret = SerIdle

\* the threads that look keys up
Threads == {1, 2}

ThrIdle == [pc |-> "idle", key |-> <<>>, hash |-> hash64(<<>>), bucket |-> 0, pilot |-> 0, p |-> 0,
            select_result |-> 0, val |-> 0]

ThrStart ==
    /\ thr = [t \in Threads |-> ThrIdle]
    /\ thr_T = "not initialized"

BkIdle == [op |-> "none"]

BkStart ==
    /\ bk = skew_bucketer_init
    /\ bk_ret = BkIdle

---------------------------------------------------------------------------
(* Inputs of the darray specification                                      *)

\* log2 of the block_size and subblock_size of the small instantiation
LogBlockSmall == 2

LogSubblockSmall == 1

MaxGapLen == 6

\* distances between consecutive indexed bits: adjacent, in the next word,
\* and beyond the 2^16 span that makes a block sparse
DaGaps == {1, 70, 66000}

DaTails == {2}

DaGetters == {"identity", "negating"}

DaTypes ==
    {darray1, darray0}
    \cup {[getter |-> g, block_size |-> Pow2(LogBlockSmall), subblock_size |-> Pow2(LogSubblockSmall)] : g \in DaGetters}

RECURSIVE GapPositions(_, _)
GapPositions(g, k) == IF k = 0 THEN 0 - 1 ELSE GapPositions(g, k - 1) + g[k]

\* the bit vector whose bits indexed under getter are at the distances g
\* from each other, followed by tail - 1 bits that are not indexed
GapVector(g, tail, getter) ==
    [num_bits |-> GapPositions(g, Len(g)) + tail,
     fill |-> IF getter = "negating" THEN 1 ELSE 0,
     diff |-> {GapPositions(g, k) : k \in 1 .. Len(g)}]

\* n indexed bits at positions 0, s, 2s, ...
StrideVector(n, s, getter) ==
    [num_bits |-> (n - 1) * s + 1,
     fill |-> IF getter = "negating" THEN 1 ELSE 0,
     diff |-> {k * s : k \in 0 .. (n - 1)}]

\* 250 bits 42 apart (the inventory test), one block and a few bits more
\* at distance 1 (dense) and at distance 65 (sparse)
DaStrides == {<<250, 42>>, <<1030, 1>>, <<1030, 65>>}

\* short vectors whose indexed bits are the background: all of them, or
\* all but one
FullVector(n, hole, getter) ==
    [num_bits |-> n,
     fill |-> IF getter = "negating" THEN 0 ELSE 1,
     diff |-> IF hole < n THEN {hole} ELSE {}]

DaFullLens == {1, 64, 65, 130}

DaSelectIdx == (0 .. (MaxGapLen + 1)) \cup {31, 32, 33, 63, 64, 65, 100, 129, 249, 250, 1023, 1024, 1029, 1030}

---------------------------------------------------------------------------
(* Inputs of the compact_vector specification                              *)

MaxCvLen == 11

NumCvPatterns == 6

\* the widths of the boundary tests
CvWidths == {1, 7, 12, 33, 63, 64}

\* the value at index i of input pattern p, cut to w bits
CvPattern(p, i, w) ==
    CASE p = 1 -> cv_mask(w)
      [] p = 2 -> IF i % 2 = 0 THEN cv_mask(w) ELSE Zero
      [] p = 3 -> IF i % 2 = 1 THEN cv_mask(w) ELSE Zero
      [] p = 4 -> And(ToBits(i * 5000 + 100 * (i + 1)), cv_mask(w))
      [] p = 5 -> {w - 1}
      [] OTHER -> And(ToBits(i + p), cv_mask(w))

CvInput(p, n, w) == [k \in 1 .. n |-> CvPattern(p, k - 1, w)]

\* the variables that the compact_vector operations do not touch
CvOthers == <<da_vars, ef_vars, fm_vars, phf_vars, ser_vars, thr_vars, bk_vars>>

InitCV == CvStart /\ DaStart /\ EfStart /\ FmStart /\ PhfStart /\ SerStart /\ ThrStart /\ BkStart

\* compact_vector::build(begin, n, w): builder(begin, n, w), then builder.build(*this);
\* taken on a freshly constructed compact_vector
CvBuild(vals, w) ==
    /\ cv_ret.op = "none"
    /\ IF w = 0
       THEN /\ cv_ret' = [op |-> "build", error |-> "width must be > 0"]
            /\ UNCHANGED <<cv, cv_in>>
       ELSE /\ cv' = builder_build(builder_fill_from(builder_resize(builder_init, Len(vals), w), vals, 0))
            /\ cv_in' = vals
            /\ cv_ret' = [op |-> "build", error |-> "none"]
    /\ UNCHANGED <<cvb, cv_it, CvOthers>>

CvAccess(i) ==
    /\ i < cv.m_size
    /\ cv_ret' = [op |-> "access", i |-> i, val |-> compact_vector_access(cv, i)]
    /\ UNCHANGED <<cvb, cv, cv_in, cv_it, CvOthers>>

CvAt(i) ==
    /\ i < cv.m_size
    /\ cv_ret' = [op |-> "at", i |-> i, val |-> compact_vector_at(cv, i)]
    /\ UNCHANGED <<cvb, cv, cv_in, cv_it, CvOthers>>

NextCV ==
    \/ \E p \in 1 .. NumCvPatterns, n \in 1 .. MaxCvLen, w \in CvWidths : CvBuild(CvInput(p, n, w), w)
    \/ \E n \in 1 .. MaxCvLen : CvBuild(CvInput(1, n, 0), 0)
    \/ \E i \in 0 .. (MaxCvLen - 1) : CvAccess(i)
    \/ \E i \in 0 .. (MaxCvLen - 1) : CvAt(i)

SpecCV == InitCV /\ [][NextCV]_vars

---------------------------------------------------------------------------
(* The specification of compact_vector::enumerator                         *)

\* the input patterns of the enumerator specification
CePatterns == {3, 4}

\* the jumps given to operator+ and operator-
CeJumps == {1, 2, 5}

\* the words that a read outside m_data may find
CeJunk == {Zero, AllOnes}

\* compact_vector::builder(n, 0) followed by build(cv), as encode of
\* elias_fano does for l = 0: no element is set
CvBuildZeroWidth(n) ==
    /\ cv_ret.op = "none"
    /\ cv' = builder_build(builder_resize(builder_init, n, 0))
    /\ cv_in' = [k \in 1 .. n |-> Zero]
    /\ cv_ret' = [op |-> "build", error |-> "none"]
    /\ UNCHANGED <<cvb, cv_it, CvOthers>>

\* it = cv.get_iterator_at(pos)
CvGetIteratorAt(pos, junk) ==
    /\ cv_ret.op # "none"
    /\ pos <= cv.m_size
    /\ cv_it' = enumerator_new(cv, pos, junk)
    /\ cv_ret' = [op |-> "get_iterator_at", words |-> enumerator_new_words(cv, pos)]
    /\ UNCHANGED <<cvb, cv, cv_in, CvOthers>>

\* ++it, up to and including position size()
CvItNext(junk) ==
    /\ cv_it.m_vec = "cv"
    /\ cv_it.m_i < cv.m_size
    /\ cv_it' = enumerator_next(cv, cv_it, junk)
    /\ cv_ret' = [op |-> "++", words |-> enumerator_words(cv, cv_it)]
    /\ UNCHANGED <<cvb, cv, cv_in, CvOthers>>

\* --it: enumerator copy(m_vec, m_i); *this = copy
CvItPrev(junk) ==
    /\ cv_it.m_vec = "cv"
    /\ cv_it.m_i > 0
    /\ cv_it' = enumerator_new(cv, cv_it.m_i - 1, junk)
    /\ cv_ret' = [op |-> "--", words |-> enumerator_new_words(cv, cv_it.m_i - 1)]
    /\ UNCHANGED <<cvb, cv, cv_in, CvOthers>>

\* it = it + jump
CvItPlus(jump, junk) ==
    /\ cv_it.m_vec = "cv"
    /\ cv_it.m_i + jump <= cv.m_size
    /\ cv_it' = enumerator_new(cv, cv_it.m_i + jump, junk)
    /\ cv_ret' = [op |-> "+", jump |-> jump, words |-> enumerator_new_words(cv, cv_it.m_i + jump)]
    /\ UNCHANGED <<cvb, cv, cv_in, CvOthers>>

\* it = it - jump, with its assert(m_i >= jump)
CvItMinus(jump, junk) ==
    /\ cv_it.m_vec = "cv"
    /\ cv_it.m_i >= jump
    /\ cv_it' = enumerator_new(cv, cv_it.m_i - jump, junk)
    /\ cv_ret' = [op |-> "-", jump |-> jump, words |-> enumerator_new_words(cv, cv_it.m_i - jump)]
    /\ UNCHANGED <<cvb, cv, cv_in, CvOthers>>

NextCE ==
    \/ \E p \in CePatterns, n \in 1 .. MaxCvLen, w \in CvWidths : CvBuild(CvInput(p, n, w), w)
    \/ \E n \in 1 .. MaxCvLen : CvBuildZeroWidth(n)
    \/ \E pos \in 0 .. MaxCvLen, junk \in CeJunk : CvGetIteratorAt(pos, junk)
    \/ \E junk \in CeJunk : CvItNext(junk)
    \/ \E junk \in CeJunk : CvItPrev(junk)
    \/ \E jump \in CeJumps, junk \in CeJunk : CvItPlus(jump, junk)
    \/ \E jump \in CeJumps, junk \in CeJunk : CvItMinus(jump, junk)

SpecCE == InitCV /\ [][NextCE]_vars

---------------------------------------------------------------------------
(* The specification of compact_vector::builder                            *)

MaxCbLen == 3

\* widths with elements that share a word and cross a word boundary (24,
\* 33) and that end on one (64, and 32 after a reduction of 33 by 1)
CbWidths == {24, 33, 64}

\* the amounts given to reduce_width_by
CbReductions == {1, 8}

\* the values given to set, all <= the mask of width w
CbOdd(w) == {b \in 0 .. w - 1 : b % 2 = 1}

CbValues(w) == {Zero, cv_mask(w), CbOdd(w)}

\* compact_vector::builder cvb(n, w)
CvbNew(n, w) ==
    /\ cv_ret.op = "none"
    /\ cvb' = builder_resize(builder_init, n, w)
    /\ cv_in' = [k \in 1 .. n |-> Zero]
    /\ cv_ret' = [op |-> "builder", n |-> n, w |-> w]
    /\ UNCHANGED <<cv, cv_it, CvOthers>>

\* cvb.set(i, v), with its assertions m_width != 0 and i < m_size
CvbSet(i, v) ==
    /\ cv_ret.op \in {"builder", "set", "reduce_width_by"}
    /\ cvb.m_width # 0
    /\ i < cvb.m_size
    /\ cvb' = builder_set(cvb, i, v)
    /\ cv_in' = [cv_in EXCEPT ![i + 1] = v]
    /\ cv_ret' = [op |-> "set", i |-> i, v |-> v, old |-> cv_in[i + 1]]
    /\ UNCHANGED <<cv, cv_it, CvOthers>>

\* cvb.reduce_width_by(n), with its assertion m_width > n
CvbReduceWidthBy(n) ==
    /\ cv_ret.op \in {"builder", "set", "reduce_width_by"}
    /\ cvb.m_width \in CbWidths
    /\ cvb.m_width > n
    /\ cvb' = builder_reduce_width_by(cvb, n)
    /\ cv_in' = [k \in 1 .. Len(cv_in) |-> And(cv_in[k], LowOnes(cvb.m_width - n))]
    /\ cv_ret' = [op |-> "reduce_width_by", n |-> n, old_width |-> cvb.m_width]
    /\ UNCHANGED <<cv, cv_it, CvOthers>>

\* cvb.build(cv)
CvbBuild ==
    /\ cv_ret.op \in {"builder", "set", "reduce_width_by"}
    /\ cv' = builder_build(cvb)
    /\ cvb' = builder_init
    /\ cv_ret' = [op |-> "build", error |-> "none"]
    /\ UNCHANGED <<cv_in, cv_it, CvOthers>>

NextCB ==
    \/ \E n \in 1 .. MaxCbLen, w \in CbWidths : CvbNew(n, w)
    \/ \E i \in 0 .. MaxCbLen - 1 : \E v \in CbValues(cvb.m_width) : CvbSet(i, v)
    \/ \E n \in CbReductions : CvbReduceWidthBy(n)
    \/ CvbBuild

SpecCB == InitCV /\ [][NextCB]_vars

---------------------------------------------------------------------------
(* The darray specification                                                *)

\* the variables that the darray operations do not touch
DaOthers == <<cv_vars, ef_vars, fm_vars, phf_vars, ser_vars, thr_vars, bk_vars>>

InitDA ==
    /\ bv = bit_vector_init
    /\ da = darray_init
    /\ da_t \in DaTypes
    /\ da_ret = DaIdle
    /\ CvStart
    /\ EfStart
    /\ FmStart
    /\ PhfStart
    /\ SerStart
    /\ ThrStart /\ BkStart

\* d.build(B) on a freshly constructed darray
DaBuild(B) ==
    /\ da_ret.op = "none"
    /\ bv' = B
    /\ da' = darray_build(da, B, da_t)
    /\ da_ret' = [op |-> "build"]
    /\ UNCHANGED <<da_t, DaOthers>>

\* d.select(B, i)
DaSelect(i) ==
    /\ da_ret.op # "none"
    /\ i <= da.m_positions
    /\ da_ret' = [op |-> "select", i |-> i] @@ darray_select(da, bv, i, da_t)
    /\ UNCHANGED <<bv, da, da_t, DaOthers>>

NextDA ==
    \/ \E m \in 1 .. MaxGapLen : \E g \in [1 .. m -> DaGaps] : \E tail \in DaTails :
           da_t.block_size < block_size_default /\ DaBuild(GapVector(g, tail, da_t.getter))
    \/ \E ns \in DaStrides :
           da_t.block_size = block_size_default /\ DaBuild(StrideVector(ns[1], ns[2], da_t.getter))
    \/ \E n \in DaFullLens : \E hole \in {0, n - 1, n} : DaBuild(FullVector(n, hole, da_t.getter))
    \/ \E i \in DaSelectIdx : DaSelect(i)

SpecDA == InitDA /\ [][NextDA]_vars

---------------------------------------------------------------------------
(* The specification of darray::build at the limit of the dense blocks     *)

MaxDbLen == 6

\* distances between consecutive indexed bits that put the span of a block
\* of the small instantiation below, at and above 2^16
DbGaps == {1, 65534, 65535, 65536}

NextDB ==
    \/ \E m \in 1 .. MaxDbLen : \E g \in [1 .. m -> DbGaps] : \E tail \in DaTails :
           da_t.block_size < block_size_default /\ DaBuild(GapVector(g, tail, da_t.getter))
    \/ \E ns \in DaStrides :
           da_t.block_size = block_size_default /\ DaBuild(StrideVector(ns[1], ns[2], da_t.getter))

SpecDB == InitDA /\ [][NextDB]_vars

---------------------------------------------------------------------------
(* The specification of darray::select on a damaged bit vector             *)

MaxDcLen == 4

\* the numbers of bits of the bit vector that are left
DcCuts == {1, 3, 64, 100}

\* the first n bits of B
bit_vector_cut(B, n) == [num_bits |-> n, fill |-> B.fill, diff |-> {p \in B.diff : p < n}]

\* essentials::load of a darray as it was saved and of a bit_vector of
\* which the file holds the first n bits only: the loader reads what the
\* file holds and tests nothing
DaLoadDamaged(n) ==
    /\ da_ret.op = "build"
    /\ n < bv.num_bits
    /\ bv' = bit_vector_cut(bv, n)
    /\ da_ret' = [op |-> "load", num_bits |-> bv.num_bits]
    /\ UNCHANGED <<da, da_t, DaOthers>>

NextDC ==
    \/ \E m \in 1 .. MaxDcLen : \E g \in [1 .. m -> {1, 70}] : \E tail \in DaTails :
           da_t.block_size < block_size_default /\ DaBuild(GapVector(g, tail, da_t.getter))
    \/ da_t.block_size = block_size_default /\ DaBuild(StrideVector(250, 42, da_t.getter))
    \/ \E n \in DcCuts : DaLoadDamaged(n)
    \/ \E i \in DaSelectIdx : i < da.m_positions /\ DaSelect(i)

SpecDC == InitDA /\ [][NextDC]_vars

---------------------------------------------------------------------------
(* The elias_fano specification                                            *)

MaxEfLen == 3

EfValues == {0, 1, 3, 64, 1000}

\* what an explicit universe adds to the last element
EfSlack == {0, 1, 100}

EfLongLen == 40

\* the sequences of the tests: the basic one, the multi-word low bits,
\* the inventory one, the one with l = 0; and one with equal elements
EfTestInput(k) ==
    CASE k = 1 -> <<3, 8, 10, 15, 21, 22, 30, 31, 45, 50>>
      [] k = 2 -> [i \in 1 .. 10 |-> (i - 1) * 5000 + i * 100]
      [] k = 3 -> [i \in 1 .. EfLongLen |-> (i - 1) * 40 + (i - 1) * 2]
      [] k = 4 -> [i \in 1 .. EfLongLen |-> i]
      [] OTHER -> [i \in 1 .. EfLongLen |-> 7 * ((i - 1) \div 3)]

EfInputs == (UNION {[1 .. m -> EfValues] : m \in 1 .. MaxEfLen}) \cup {EfTestInput(k) : k \in 1 .. 5}

IsSorted(vals) == \A i \in 1 .. (Len(vals) - 1) : vals[i] <= vals[i + 1]

EfSmallDArray(g) == [getter |-> g, block_size |-> Pow2(LogBlockSmall), subblock_size |-> Pow2(LogSubblockSmall)]

EfTypes ==
    {[index_zeros |-> z, encode_prefix_sum |-> ps, DArray1 |-> d[1], DArray0 |-> d[2]] :
        z \in BOOLEAN, ps \in BOOLEAN,
        d \in {<<darray1, darray0>>, <<EfSmallDArray("identity"), EfSmallDArray("negating")>>}}

\* the variables that the elias_fano operations do not touch
EfOthers == <<cv_vars, da_vars, fm_vars, phf_vars, ser_vars, thr_vars, bk_vars>>

InitEF ==
    /\ ef = elias_fano_init
    /\ ef_t \in EfTypes
    /\ ef_in = [vals |-> <<>>, universe |-> UniverseDefault]
    /\ ef_ret = EfIdle
    /\ CvStart
    /\ DaStart
    /\ FmStart
    /\ PhfStart
    /\ SerStart
    /\ ThrStart /\ BkStart

\* e.encode(vals.begin(), vals.size(), universe) on a freshly constructed
\* elias_fano.  A write of bvb_high_bits.set outside the builder is
\* undefined: the call may end as the code says or the process may die.
EfEncode(vals, universe) ==
    /\ ef_ret.op = "none"
    /\ LET r == elias_fano_encode(ef, vals, Len(vals), universe, ef_t)
       IN /\ ef' = r.ef
          /\ ef_ret' \in {[op |-> "encode", error |-> r.error]}
                         \cup (IF r.out_of_range THEN {[op |-> "encode", error |-> "killed"]} ELSE {})
    /\ ef_in' = [vals |-> vals, universe |-> universe]
    /\ UNCHANGED <<ef_t, EfOthers>>

\* e.access(i)
EfAccess(i) ==
    /\ ef_ret.op # "none"
    /\ ef_ret.op = "encode" => ef_ret.error = "none"
    /\ i < elias_fano_size(ef)
    /\ ef_ret' = [op |-> "access", i |-> i, val |-> elias_fano_access(ef, i, ef_t)]
    /\ UNCHANGED <<ef, ef_t, ef_in, EfOthers>>

NextEF ==
    \/ \E vals \in EfInputs : EfEncode(vals, UniverseDefault)
    \/ \E vals \in EfInputs : \E d \in EfSlack :
           ~ef_t.encode_prefix_sum /\ IsSorted(vals) /\ EfEncode(vals, vals[Len(vals)] + d)
    \/ \E i \in 0 .. EfLongLen : EfAccess(i)

SpecEF == InitEF /\ [][NextEF]_vars

---------------------------------------------------------------------------
(* The specification of the elias_fano queries                             *)

\* the sequence of the comments of next_geq, prev_leq and locate
EfDocumented == <<1, 3, 3, 4, 5, 6, 6, 9, 12, 14, 17, 17>>

\* the sequence of the comment of diff
EfDocumentedDiff == <<3, 2, 5, 1, 16>>

MaxEqLen == 2

EqInputs ==
    (UNION {[1 .. m -> EfValues] : m \in 1 .. MaxEqLen})
        \cup {EfDocumented, EfDocumentedDiff, EfTestInput(1), EfTestInput(5)}

\* the values asked for
EqQueries == {0, 1, 2, 3, 4, 6, 7, 8, 17, 18, 23, 50, 63, 64, 65, 1000, 1001, 2001}

\* the sequence an encode of vals stores
RECURSIVE PrefixSums(_, _)
PrefixSums(vals, k) == IF k = 0 THEN <<0>> ELSE Append(PrefixSums(vals, k - 1), SumFirst(vals, k))

EfStored(vals, t) == IF t.encode_prefix_sum THEN PrefixSums(vals, Len(vals)) ELSE vals

\* the call is made on an encoded sequence
EfEncoded ==
    /\ ef_ret.op # "none"
    /\ ef_ret.op = "encode" => ef_ret.error = "none"

\* e.diff(i); diff(size() - 1) would read element size()
EfDiff(i) ==
    /\ EfEncoded
    /\ ef_t.encode_prefix_sum
    /\ i + 1 < elias_fano_size(ef)
    /\ ef_ret' = [op |-> "diff", i |-> i, val |-> elias_fano_diff(ef, i, ef_t)]
    /\ UNCHANGED <<ef, ef_t, ef_in, EfOthers>>

EfAnswered(answer) ==
    /\ ef_ret' = answer
    /\ UNCHANGED <<ef, ef_t, ef_in, EfOthers>>

EfNextGeqOf(x, r) == EfAnswered([op |-> "next_geq", x |-> x, val |-> r.ret, past_the_end |-> r.past_the_end])

\* e.next_geq(x)
EfNextGeq(x) ==
    /\ EfEncoded
    /\ ef_t.index_zeros
    /\ EfNextGeqOf(x, next_geq_leftmost(ef, x, ef_t))

\* e.prev_leq(x)
EfPrevLeq(x) ==
    /\ EfEncoded
    /\ ef_t.index_zeros
    /\ EfAnswered([op |-> "prev_leq", x |-> x, val |-> elias_fano_prev_leq(ef, x, ef_t)])

\* e.locate(x)
EfLocate(x) ==
    /\ EfEncoded
    /\ ef_t.index_zeros
    /\ EfAnswered([op |-> "locate", x |-> x, val |-> elias_fano_locate(ef, x, ef_t)])

NextEQ ==
    \/ \E vals \in EqInputs : (ef_t.encode_prefix_sum \/ IsSorted(vals)) /\ EfEncode(vals, UniverseDefault)
    \/ \E i \in 0 .. EfLongLen : EfDiff(i)
    \/ \E x \in EqQueries : EfNextGeq(x)
    \/ \E x \in EqQueries : EfPrevLeq(x)
    \/ \E x \in EqQueries : EfLocate(x)

SpecEQ == InitEF /\ [][NextEQ]_vars

---------------------------------------------------------------------------
(* The fastmod specification                                               *)

MaxFmDivisor == 12

MaxFmDividend == 10

\* 2^64 - 1
U64Max == [k \in 1 .. 8 |-> 255]

\* the test cases of main: a, m_high, m_low, d, expected_result
FastModTestCase(k) ==
    CASE k = 1 -> [a |-> Dec(<<1, 0, 9, 7, 8, 6, 1, 3, 2, 1, 9, 4, 0, 8, 0, 6, 2, 6, 5, 6>>),
                   m_high |-> Dec(<<1, 3, 4, 6, 4, 7, 7, 6, 6, 9, 6, 1, 3, 8, 3, 5, 8, 8>>),
                   m_low |-> Dec(<<8, 0, 7, 8, 8, 6, 6, 0, 1, 7, 6, 8, 3, 0, 1, 5, 3, 0, 7>>),
                   d |-> Dec(<<1, 3, 7>>), expected_result |-> Dec(<<9, 0>>)]
      [] k = 2 -> [a |-> Dec(<<1, 8, 4, 2, 4, 6, 7, 3, 7, 6, 2, 7, 1, 9, 2, 4, 2, 2, 0, 0>>),
                   m_high |-> Dec(<<5, 7, 2, 8, 8, 0, 2, 5, 0, 7, 3, 6, 3, 2, 1, 4, 7>>),
                   m_low |-> Dec(<<1, 6, 1, 5, 5, 2, 2, 3, 0, 7, 0, 7, 6, 4, 2, 6, 5, 7, 0, 1>>),
                   d |-> Dec(<<3, 2, 2>>), expected_result |-> Dec(<<2, 8>>)]
      [] OTHER -> [a |-> Dec(<<1, 2, 5, 8, 9, 6, 8, 4, 5, 3, 0, 5, 8, 4, 3, 2, 3, 6, 9, 7>>),
                   m_high |-> Dec(<<5, 7, 2, 8, 8, 0, 2, 5, 0, 7, 3, 6, 3, 2, 1, 4, 7>>),
                   m_low |-> Dec(<<1, 6, 1, 5, 5, 2, 2, 3, 0, 7, 0, 7, 6, 4, 2, 6, 5, 7, 0, 1>>),
                   d |-> Dec(<<3, 2, 2>>), expected_result |-> Dec(<<3, 1>>)]

\* divisors: the smallest, the ones of the tests, powers of two, the
\* largest, and others spread over the 64 bits
FmDivisor(k) ==
    CASE k = 1 -> Dec(<<1>>)
      [] k = 2 -> Dec(<<2>>)
      [] k = 3 -> Dec(<<3>>)
      [] k = 4 -> Dec(<<1, 3, 7>>)
      [] k = 5 -> Dec(<<3, 2, 2>>)
      [] k = 6 -> BytesOfBits({16}, 8)
      [] k = 7 -> BytesOfBits({32, 0}, 8)
      [] k = 8 -> BytesOfBits({63}, 8)
      [] k = 9 -> U64Max
      [] k = 10 -> BigSub(U64Max, <<1>>, 8)
      [] k = 11 -> Dec(<<1, 0, 0, 0, 0, 0, 0, 0, 0, 0, 0, 0, 0, 0, 0, 0, 0, 0, 0, 7>>)
      [] OTHER -> [i \in 1 .. 8 |-> (k * 37 * i + 11) % 256]

\* dividends: the ends of the range, the neighbours of d and of the
\* largest multiple of d, the ones of the tests, and others
FmDividend(j, d) ==
    CASE j = 1 -> BigZero(8)
      [] j = 2 -> Dec(<<1>>)
      [] j = 3 -> U64Max
      [] j = 4 -> BigSub(d, <<1>>, 8)
      [] j = 5 -> d
      [] j = 6 -> BigAdd(d, <<1>>, 8)
      [] j = 7 -> BigSub(U64Max, BigDivMod(U64Max, d).r, 8)
      [] j = 8 -> BigSub(BigSub(U64Max, BigDivMod(U64Max, d).r, 8), <<1>>, 8)
      [] j = 9 -> FastModTestCase(1).a
      [] j = 10 -> FastModTestCase(2).a
      [] OTHER -> [i \in 1 .. 8 |-> (j * 101 * i + 7) % 256]

\* the variables that the fastmod operations do not touch
FmOthers == <<cv_vars, da_vars, ef_vars, phf_vars, ser_vars, thr_vars, bk_vars>>

InitFM == FmStart /\ CvStart /\ DaStart /\ EfStart /\ PhfStart /\ SerStart /\ ThrStart /\ BkStart

\* M = fastmod::computeM_u64(d), once, as the builders do
FmComputeM(d) ==
    /\ fm_ret.op = "none"
    /\ fm' = [fm EXCEPT !.d = d, !.M = computeM_u64(d)]
    /\ fm_ret' = [op |-> "computeM_u64"]
    /\ UNCHANGED FmOthers

\* fastmod_u64(a, M, d) with the M computed for d
FmMod(a) ==
    /\ fm_ret.op # "none"
    /\ fm' = [fm EXCEPT !.a = a]
    /\ fm_ret' = [op |-> "fastmod_u64", val |-> fastmod_u64(a, fm.M, fm.d)]
    /\ UNCHANGED FmOthers

\* one round of the loop of main over the test cases
FmTestCase(tc) ==
    /\ fm_ret.op = "none"
    /\ fm' = [a |-> tc.a, M |-> MakeM(tc.m_high, tc.m_low), d |-> tc.d]
    /\ fm_ret' = [op |-> "fastmod_u64", val |-> fastmod_u64(tc.a, MakeM(tc.m_high, tc.m_low), tc.d),
                  expected_result |-> tc.expected_result]
    /\ UNCHANGED FmOthers

NextFM ==
    \/ \E k \in 1 .. MaxFmDivisor : FmComputeM(FmDivisor(k))
    \/ \E j \in 1 .. MaxFmDividend : FmMod(FmDividend(j, fm.d))
    \/ \E k \in 1 .. 3 : FmTestCase(FastModTestCase(k))

SpecFM == InitFM /\ [][NextFM]_vars

---------------------------------------------------------------------------
(* The skew_bucketer specification                                         *)

MaxBuckets == 10

MaxBkHash == 14

\* hashes: the ends of the range, the neighbours of T and of
\* floor(0.6 * 2^64), the ones of the tests, and others
BkHash(j) ==
    CASE j = 1 -> BigZero(8)
      [] j = 2 -> U64Max
      [] j = 3 -> BigSub(skew_T, <<1>>, 8)
      [] j = 4 -> skew_T
      [] j = 5 -> BigAdd(skew_T, <<1>>, 8)
      [] j = 6 -> BigSub(skew_T_floor, <<1>>, 8)
      [] j = 7 -> skew_T_floor
      [] j = 8 -> FastModTestCase(1).a
      [] j = 9 -> FastModTestCase(2).a
      [] OTHER -> [i \in 1 .. 8 |-> (j * 101 * i + 7) % 256]

\* the variables that the skew_bucketer operations do not touch
BkOthers == <<cv_vars, da_vars, ef_vars, fm_vars, phf_vars, ser_vars, thr_vars>>

InitBK == BkStart /\ CvStart /\ DaStart /\ EfStart /\ FmStart /\ PhfStart /\ SerStart /\ ThrStart

\* bucketer.init(num_buckets, lambda, table_size, alpha), once, as the builder does
BkInit(num_buckets) ==
    /\ bk_ret.op = "none"
    /\ bk' = skew_bucketer_do_init(num_buckets)
    /\ bk_ret' = [op |-> "init", num_buckets |-> num_buckets]
    /\ UNCHANGED BkOthers

\* bucketer.bucket(hash)
BkBucket(hash) ==
    /\ bk_ret.op # "none"
    /\ bk_ret' = [op |-> "bucket", num_buckets |-> bk_ret.num_buckets, hash |-> hash,
                  val |-> skew_bucketer_bucket(bk, hash)]
    /\ UNCHANGED <<bk, BkOthers>>

NextBK ==
    \/ \E num_buckets \in 1 .. MaxBuckets : BkInit(num_buckets)
    \/ \E j \in 1 .. MaxBkHash : BkBucket(BkHash(j))

SpecBK == InitBK /\ [][NextBK]_vars

---------------------------------------------------------------------------
(* The single_phf specification                                            *)

MaxKeys == 3

NumSeeds == 2

\* the room left in the table beyond the keys
PhfSlack == {0, 2}

PhfBuckets == {1, 4}

\* keys: small integers and words that use all 64 bits
PhfKey(j) == IF j % 2 = 1 THEN U64OfNat(j * j) ELSE [i \in 1 .. 8 |-> (j * 73 * i + 5) % 256] \o <<>>

PhfSeed(k) == [i \in 1 .. 8 |-> (k * 29 * i + 101 * k) % 256] \o <<>>

\* the variables that the single_phf operations do not touch
PhfOthers == <<cv_vars, da_vars, ef_vars, fm_vars, ser_vars, thr_vars, bk_vars>>

InitPHF ==
    /\ phf = single_phf_init
    /\ phf_t \in {[Minimal |-> TRUE], [Minimal |-> FALSE]}
    /\ phf_keys = <<>>
    /\ phf_ret = PhfIdle
    /\ CvStart
    /\ DaStart
    /\ EfStart
    /\ FmStart
    /\ SerStart
    /\ ThrStart /\ BkStart

\* f.build_in_internal_memory(keys, num_keys, config): the builder's
\* build_from_keys, then build(builder, config)
build_in_internal_memory(f, builder, config, Minimal) ==
    InOrder(<<builder>>,
            IF builder.ok THEN single_phf_build(f, builder, config, Minimal)
            ELSE [phf |-> f, error |-> "seed_runtime_error"])

\* the function built is the one in use from now on, unless the build
\* ended with an error
PhfBuilt(r, keys) ==
    /\ phf' = r.phf
    /\ phf_ret' = IF r.error = "none" THEN [op |-> "ready"] ELSE [op |-> "error", error |-> r.error]
    /\ phf_keys' = IF r.error = "none" THEN keys ELSE phf_keys

PhfBuild(keys, seed, table_size, num_buckets, config) ==
    /\ phf_ret.op = "none"
    /\ PhfBuilt(build_in_internal_memory(phf, builder_build_from_keys(keys, seed, table_size, num_buckets),
                                         config, phf_t.Minimal),
                keys)
    /\ UNCHANGED <<phf_t, PhfOthers>>

\* f(key)
PhfLookup(key) ==
    /\ phf_ret.op = "ready"
    /\ phf_ret' = [op |-> "lookup", key |-> key, val |-> single_phf_call(phf, key, phf_t.Minimal)]
    /\ UNCHANGED <<phf, phf_t, phf_keys, PhfOthers>>

\* f.position_raw(Hasher::hash(key, f.seed()))
PhfPositionRaw(key) ==
    /\ phf_ret.op = "ready"
    /\ phf_ret' = [op |-> "position_raw", key |-> key,
                   val |-> single_phf_position_raw(phf, murmurhash2_64(key, phf.m_seed))]
    /\ UNCHANGED <<phf, phf_t, phf_keys, PhfOthers>>

\* the caller takes the value returned and goes on
PhfReturn ==
    /\ phf_ret.op \in {"lookup", "position_raw"}
    /\ phf_ret' = [op |-> "ready"]
    /\ UNCHANGED <<phf, phf_t, phf_keys, PhfOthers>>

NextPHF ==
    \/ \E n \in 1 .. MaxKeys : \E k \in 1 .. NumSeeds : \E slack \in PhfSlack : \E nb \in PhfBuckets :
           PhfBuild([j \in 1 .. n |-> PhfKey(j)], PhfSeed(k), n + slack, nb,
                    [minimal |-> phf_t.Minimal, search |-> "xor_displacement"])
    \/ \E m \in BOOLEAN : \E sr \in {"xor_displacement", "add_displacement"} :
           (m # phf_t.Minimal \/ sr # "xor_displacement")
           /\ PhfBuild(<<PhfKey(1)>>, PhfSeed(1), 1, 1, [minimal |-> m, search |-> sr])
    \/ \E j \in 1 .. (MaxKeys + 1) : PhfLookup(PhfKey(j))
    \/ \E j \in 1 .. (MaxKeys + 1) : PhfPositionRaw(PhfKey(j))
    \/ PhfReturn

SpecPHF == InitPHF /\ [][NextPHF]_vars

---------------------------------------------------------------------------
(* The build tool: build, reorder the values, save the function and append *)
(* the values; then a program that loads the file and looks keys up        *)

\* the places where a file may be cut short, and what the loader's
\* uninitialised counts may hold
NumCuts == 4

SerJunk == {U64OfNat(3), [k \in 1 .. 8 |-> 255] \o <<>>}

\* the value that goes with key j
SerValue(j) == 1000 * j + 7

SerOthers == <<cv_vars, da_vars, ef_vars, fm_vars, thr_vars, bk_vars>>

InitSER ==
    /\ phf = single_phf_init
    /\ phf_t \in {[Minimal |-> TRUE], [Minimal |-> FALSE]}
    /\ phf_keys = <<>>
    /\ phf_ret = PhfIdle
    /\ SerStart
    /\ CvStart
    /\ DaStart
    /\ EfStart
    /\ FmStart
    /\ ThrStart /\ BkStart

\* reordered_values after the loop over the keys, or the index that is out
\* of bounds
RECURSIVE reorder_values(_, _, _, _, _, _)
\* one turn of the loop: values[i] goes to the place phf_index
reorder_value(phf_index, f, Minimal, keys, values, i, reordered_values) ==
    InOrder(<<phf_index>>,
            IF phf_index >= Len(keys)
            THEN [thrown |-> "PHF index out of bounds!", reordered_values |-> reordered_values]
            ELSE reorder_values(f, Minimal, keys, values, i + 1,
                                [reordered_values EXCEPT ![phf_index + 1] = values[i]]))

reorder_values(f, Minimal, keys, values, i, reordered_values) ==
    IF i > Len(keys) THEN [thrown |-> "none", reordered_values |-> reordered_values]
    ELSE reorder_value(single_phf_call(f, keys[i], Minimal), f, Minimal, keys, values, i, reordered_values)

\* the output file with the values first
output_file_values_first(container, reordered_values) ==
    U64OfNat(Len(reordered_values))
    \o ConcatAll([k \in 1 .. Len(reordered_values) |-> PodMemory("u16", reordered_values[k])] \o <<>>)
    \o container

\* the output file: what essentials::save wrote, then value_count and the
\* values, appended
output_file(container, reordered_values) ==
    container \o U64OfNat(Len(reordered_values))
    \o ConcatAll([k \in 1 .. Len(reordered_values) |-> PodMemory("u16", reordered_values[k])] \o <<>>)

\* the end of main: the exception of the loop ends the program before the
\* file is opened
CliWrite(r, container, values) ==
    IF r.thrown # "none"
    THEN /\ ser_ret' = [op |-> "error", error |-> r.thrown]
         /\ UNCHANGED <<ser_in, ser_file>>
    ELSE /\ ser_in' = values
         /\ ser_file' = output_file(container, r.reordered_values)
         /\ ser_ret' = [op |-> "saved", container |-> Len(container)]

\* main, after the build: the values are reordered, the function is saved
\* and the count and the values are appended to the file
CliSave(values) ==
    /\ phf_ret.op = "ready"
    /\ ser_ret.op = "none"
    /\ Len(values) = Len(phf_keys)
    /\ CliWrite(reorder_values(phf, phf_t.Minimal, phf_keys, values, 1, [i \in 1 .. Len(phf_keys) |-> 0]),
                essentials_save("single_phf", phf), values)
    /\ UNCHANGED <<ser_phf, phf_vars, SerOthers>>

\* the object and the stream as the loader leaves them
SerLoaded(r, cut) ==
    /\ ser_phf' = r.val
    /\ ser_ret' = [op |-> "load", cut |-> cut, container |-> ser_ret.container, pos |-> r.is.pos,
                   good |-> r.is.good, thrown |-> r.is.thrown]

\* essentials::load(f, filename) into a freshly constructed single_phf, from
\* the file or from its first bytes when it was cut short
SerLoad(cut, junk) ==
    /\ ser_ret.op = "saved"
    /\ SerLoaded(essentials_load("single_phf", ser_phf, SubSeq(ser_file, 1, cut), junk), cut)
    /\ UNCHANGED <<ser_in, ser_file, phf_vars, SerOthers>>

\* f(key) on the function loaded from the whole container
SerLookup(key) ==
    /\ ser_ret.op \in {"load", "loaded"}
    /\ ser_ret.cut >= ser_ret.container
    /\ ser_ret' = [op |-> "lookup", cut |-> ser_ret.cut, container |-> ser_ret.container, key |-> key,
                   val |-> single_phf_call(ser_phf, key, phf_t.Minimal)]
    /\ UNCHANGED <<ser_in, ser_file, ser_phf, phf_vars, SerOthers>>

\* the caller takes the value returned and goes on
SerReturn ==
    /\ ser_ret.op = "lookup"
    /\ ser_ret' = [op |-> "loaded", cut |-> ser_ret.cut, container |-> ser_ret.container]
    /\ UNCHANGED <<ser_in, ser_file, ser_phf, phf_vars, SerOthers>>

NextSER ==
    \/ \E n \in 1 .. MaxKeys : \E slack \in PhfSlack : \E nb \in PhfBuckets :
           PhfBuild([j \in 1 .. n |-> PhfKey(j)], PhfSeed(1), n + slack, nb,
                    [minimal |-> phf_t.Minimal, search |-> "xor_displacement"])
    \/ CliSave([j \in 1 .. Len(phf_keys) |-> SerValue(j)])
    \/ \E k \in 0 .. NumCuts : \E junk \in SerJunk : SerLoad((Len(ser_file) * k) \div NumCuts, junk)
    \/ \E j \in 1 .. (MaxKeys + 1) : SerLookup(PhfKey(j))
    \/ SerReturn

SpecSER == InitSER /\ [][NextSER]_vars

---------------------------------------------------------------------------
(* Threads that look keys up in one function, a step at a time: the call   *)
(* of Hasher::hash, bucketer.bucket, pilots.access, the slot p, and for a  *)
(* minimal function the select and the low bits of free_slots.access       *)

\* the end of the slot step: p is returned, or looked up in m_free_slots
lookup_minimal(f, l, p, Minimal) ==
    InOrder(<<p>>,
            IF Minimal /\ p >= f.m_num_keys
            THEN [l EXCEPT !.pc = "select", !.p = p]
            ELSE [l EXCEPT !.pc = "done", !.p = p, !.val = p])

\* the locals of a lookup after its next step on the function f; every
\* member function on the way is const, and the locals are on the stack of
\* the thread
lookup_locals(f, l, Minimal) ==
    CASE l.pc = "hash" -> [l EXCEPT !.pc = "bucket", !.hash = murmurhash2_64(l.key, f.m_seed)]
      [] l.pc = "bucket" ->
            [l EXCEPT !.pc = "pilot", !.bucket = skew_bucketer_bucket(f.m_bucketer, l.hash.first)]
      [] l.pc = "pilot" -> [l EXCEPT !.pc = "slot", !.pilot = dual_access(f.m_pilots, l.bucket)]
      [] l.pc = "slot" ->
            lookup_minimal(f, l,
                           NatOfU64(fastmod_u64(Xor64(l.hash.second, default_hash64(U64OfNat(l.pilot), f.m_seed)),
                                                f.m_M_128, U64OfNat(f.m_table_size))),
                           Minimal)
      [] l.pc = "select" ->
            [l EXCEPT !.pc = "low_bits",
                      !.select_result = darray_select(f.m_free_slots.m_high_bits_d1, f.m_free_slots.m_high_bits,
                                                      l.p - f.m_num_keys, free_slots_t.DArray1).val]
      [] l.pc = "low_bits" ->
            [l EXCEPT !.pc = "done",
                      !.val = ToNat(Or(Shl(ToBits(l.select_result - (l.p - f.m_num_keys)),
                                           f.m_free_slots.m_low_bits.m_width),
                                       compact_vector_access(f.m_free_slots.m_low_bits, l.p - f.m_num_keys)))]

\* a step that keeps the pilot it has read in the function, where the
\* next step takes it from
lookup_step_keeps_pilot(f, T, l, Minimal) ==
    CASE l.pc = "pilot" ->
            [f |-> [f EXCEPT !.m_pilots = [m_last |-> dual_access(f.m_pilots, l.bucket)] @@ f.m_pilots],
             T |-> T, l |-> lookup_locals(f, l, Minimal)]
      [] l.pc = "slot" /\ "m_last" \in DOMAIN f.m_pilots ->
            [f |-> f, T |-> T, l |-> lookup_locals(f, [l EXCEPT !.pilot = f.m_pilots.m_last], Minimal)]
      [] OTHER -> [f |-> f, T |-> T, l |-> lookup_locals(f, l, Minimal)]

\* one step of operator()(key): what it leaves of the function, of the
\* static T of bucket(), which its first call initializes under the guard
\* of the language, and of the locals
lookup_step(f, T, l, Minimal) ==
    [f |-> f, T |-> IF l.pc = "bucket" THEN skew_T ELSE T, l |-> lookup_locals(f, l, Minimal)]

ThrOthers == <<cv_vars, da_vars, ef_vars, fm_vars, ser_vars, bk_vars>>

InitTHR ==
    /\ phf = single_phf_init
    /\ phf_t \in {[Minimal |-> TRUE], [Minimal |-> FALSE]}
    /\ phf_keys = <<>>
    /\ phf_ret = PhfIdle
    /\ ThrStart /\ BkStart
    /\ CvStart
    /\ DaStart
    /\ EfStart
    /\ FmStart
    /\ SerStart

\* thread t calls f(key)
ThrCall(t, key) ==
    /\ phf_ret.op = "ready"
    /\ thr[t].pc = "idle"
    /\ thr' = [thr EXCEPT ![t] = [ThrIdle EXCEPT !.pc = "hash", !.key = key]]
    /\ UNCHANGED <<thr_T, phf_vars, ThrOthers>>

\* what a step of thread t leaves behind
ThrStepped(t, r) ==
    /\ phf' = r.f
    /\ thr_T' = r.T
    /\ thr' = [thr EXCEPT ![t] = r.l]

\* thread t takes the next step of its lookup
ThrStep(t) ==
    /\ thr[t].pc \notin {"idle", "done"}
    /\ ThrStepped(t, lookup_step(phf, thr_T, thr[t], phf_t.Minimal))
    /\ UNCHANGED <<phf_t, phf_keys, phf_ret, ThrOthers>>

\* the caller in thread t takes the value returned and goes on
ThrReturn(t) ==
    /\ thr[t].pc = "done"
    /\ thr' = [thr EXCEPT ![t] = ThrIdle]
    /\ UNCHANGED <<thr_T, phf_vars, ThrOthers>>

NextTHR ==
    \/ \E slack \in PhfSlack : \E nb \in PhfBuckets :
           PhfBuild([j \in 1 .. MaxKeys |-> PhfKey(j)], PhfSeed(1), MaxKeys + slack, nb,
                    [minimal |-> phf_t.Minimal, search |-> "xor_displacement"])
    \/ \E t \in Threads : \E j \in 1 .. (MaxKeys + 1) : ThrCall(t, PhfKey(j))
    \/ \E t \in Threads : ThrStep(t)
    \/ \E t \in Threads : ThrReturn(t)

SpecTHR == InitTHR /\ [][NextTHR]_vars

---------------------------------------------------------------------------
\* the keys the function was built over
PhfK == {phf_keys[i] : i \in 1 .. Len(phf_keys)}

\* what position(hash) computes before any remapping, for the key of the
\* last call: the pilot of the bucket of h1, and the remainder of
\* h2 xor hash(pilot, seed) by table_size
PhfHashOfRet == murmurhash2_64(phf_ret.key, phf.m_seed)

PhfPilotOfRet == dual_access(phf.m_pilots, skew_bucketer_bucket(phf.m_bucketer, PhfHashOfRet.first))

PhfRawOfRet ==
    NatOfU64(BigDivMod(Xor64(PhfHashOfRet.second, default_hash64(U64OfNat(PhfPilotOfRet), phf.m_seed)),
                       U64OfNat(phf.m_table_size)).r)

(* C1: for a minimal PHF built over a set K of n distinct 64-bit keys,     *)
(* lookup restricted to K is a bijection onto {0, ..., n-1}: for every x   *)
(* in K lookup(x) < num_keys, and for all x # y in K lookup(x) #           *)
(* lookup(y).                                                              *)
C1_LookupIsBijectionOnK ==
    (phf_ret.op = "lookup" /\ phf_t.Minimal /\ phf_ret.key \in PhfK) =>
        /\ phf.m_num_keys = Cardinality(PhfK)
        /\ phf_ret.val < phf.m_num_keys
        /\ \A y \in PhfK \ {phf_ret.key} : single_phf_call(phf, y, TRUE) # phf_ret.val

\* a key of a set of three, in a table of five slots, that is sent to a
\* slot past the keys and remapped below num_keys
C1_Witness ==
    /\ phf_ret.op = "lookup"
    /\ phf_t.Minimal
    /\ phf_ret.key \in PhfK
    /\ phf.m_num_keys = 3
    /\ phf.m_table_size = 5
    /\ PhfRawOfRet >= 3
    /\ phf_ret.val < 3

(* C2: position(hash) computes the raw position p = fastmod(h2 xor         *)
(* hash(pilot, seed), table_size) from the pilot of bucket(h1), and then,  *)
(* when Minimal is true and p >= num_keys, returns                         *)
(* free_slots.access(p - num_keys); in every other case (Minimal false,    *)
(* or p < num_keys) it returns p unchanged.                                *)
C2_PositionIsRawThenRemap ==
    /\ phf_ret.op = "position_raw" => phf_ret.val = PhfRawOfRet
    /\ phf_ret.op = "lookup" =>
           phf_ret.val = IF phf_t.Minimal /\ PhfRawOfRet >= phf.m_num_keys
                         THEN elias_fano_access(phf.m_free_slots, PhfRawOfRet - phf.m_num_keys, free_slots_t)
                         ELSE PhfRawOfRet

\* a minimal lookup whose raw position is num_keys - 1, the last one that
\* is returned unchanged
C2_Witness ==
    /\ phf_ret.op = "lookup"
    /\ phf_t.Minimal
    /\ phf.m_num_keys < phf.m_table_size
    /\ PhfRawOfRet = phf.m_num_keys - 1
    /\ phf_ret.val = PhfRawOfRet

\* a minimal lookup whose raw position is num_keys, the first one that is
\* remapped
C2_WitnessRemapped ==
    /\ phf_ret.op = "lookup"
    /\ phf_t.Minimal
    /\ PhfRawOfRet = phf.m_num_keys
    /\ phf_ret.val # PhfRawOfRet

\* a lookup that is not minimal and returns a position past the keys
C2_WitnessNotMinimal ==
    /\ phf_ret.op = "lookup"
    /\ ~phf_t.Minimal
    /\ phf_ret.val >= phf.m_num_keys
    /\ phf_ret.val = PhfRawOfRet

(* C3: lookup is total: for every 64-bit key, whether or not it belongs    *)
(* to K, lookup on a minimal PHF completes without any error or            *)
(* out-of-range access (the free-slot index p - num_keys is always <       *)
(* free_slots.size()) and returns a value in [0, num_keys).                *)
C3_LookupIsTotal ==
    (phf_ret.op = "lookup" /\ phf_t.Minimal) =>
        /\ PhfRawOfRet < phf.m_table_size
        /\ PhfRawOfRet >= phf.m_num_keys =>
               /\ PhfRawOfRet - phf.m_num_keys < elias_fano_size(phf.m_free_slots)
               /\ darray_select(phf.m_free_slots.m_high_bits_d1, phf.m_free_slots.m_high_bits,
                                PhfRawOfRet - phf.m_num_keys, darray1).path
                      \in {"sparse", "dense start", "dense scan"}
        /\ phf_ret.val < phf.m_num_keys

\* a key outside K whose raw position is past the keys
C3_Witness ==
    /\ phf_ret.op = "lookup"
    /\ phf_t.Minimal
    /\ phf_ret.key \notin PhfK
    /\ PhfRawOfRet >= phf.m_num_keys
    /\ phf_ret.val < phf.m_num_keys

\* a key outside K whose raw position is the last slot of the table
C3_WitnessLastSlot ==
    /\ phf_ret.op = "lookup"
    /\ phf_t.Minimal
    /\ phf_ret.key \notin PhfK
    /\ phf.m_num_keys < phf.m_table_size
    /\ PhfRawOfRet = phf.m_table_size - 1

---------------------------------------------------------------------------
\* the serialization grammar: a vector is its count as a u64 and then its
\* elements, each in its own width
GrammarVec(type, vec) ==
    U64OfNat(Len(vec)) \o ConcatAll([k \in 1 .. Len(vec) |-> PodMemory(type, vec[k])] \o <<>>)

GrammarCompactVector(c) ==
    U64OfNat(c.m_size) \o U64OfNat(c.m_width) \o BytesOfBits(c.m_mask, 8) \o GrammarVec("u64b", c.m_data)

GrammarBitVector(B) ==
    U64OfNat(B.num_bits) \o GrammarVec("u64b", [k \in 1 .. bv_num_words(B) |-> bv_word(B, k - 1)] \o <<>>)

GrammarDarray(d) ==
    U64OfNat(d.m_positions) \o GrammarVec("i64", d.m_block_inventory)
    \o GrammarVec("u16", d.m_subblock_inventory) \o GrammarVec("u64", d.m_overflow_positions)

GrammarEliasFano(e) ==
    U64OfNat(e.m_back) \o GrammarBitVector(e.m_high_bits) \o GrammarDarray(e.m_high_bits_d1)
    \o GrammarDarray(e.m_high_bits_d0) \o GrammarCompactVector(e.m_low_bits)

GrammarDictionary(d) == GrammarCompactVector(d.m_ranks) \o GrammarCompactVector(d.m_dict)

GrammarDualDictionary(e) == GrammarDictionary(e.m_front) \o GrammarDictionary(e.m_back)

GrammarSkewBucketer(b) ==
    U64OfNat(b.m_num_dense_buckets) \o U64OfNat(b.m_num_sparse_buckets)
    \o PodMemory("u128", b.m_M_num_dense_buckets) \o PodMemory("u128", b.m_M_num_sparse_buckets)

GrammarPHF(f) ==
    f.m_seed \o U64OfNat(f.m_num_keys) \o U64OfNat(f.m_table_size) \o PodMemory("u128", f.m_M_128)
    \o f.m_M_64 \o GrammarSkewBucketer(f.m_bucketer) \o GrammarDualDictionary(f.m_pilots)
    \o GrammarEliasFano(f.m_free_slots)

\* the bytes [from, from + n) of the file
FileBytes(from, n) == SubSeq(ser_file, from + 1, from + n)

(* C8: round trip: saving a PHF with the saver visitor and loading the     *)
(* bytes with the loader visitor yields a PHF whose every field and vector *)
(* equals the original's, so it returns the same lookup value as the       *)
(* original on every key.                                                  *)
C8_RoundTrip ==
    /\ (ser_ret.op = "load" /\ ser_ret.cut >= ser_ret.container) =>
           /\ ser_ret.good
           /\ ser_ret.thrown = "none"
           /\ ser_phf = phf
    /\ ser_ret.op = "lookup" => ser_ret.val = single_phf_call(phf, ser_ret.key, phf_t.Minimal)

\* a minimal function of three keys in five slots, loaded, looked up with a
\* key whose slot is remapped through the loaded free slots
C8_Witness ==
    /\ ser_ret.op = "lookup"
    /\ phf_t.Minimal
    /\ phf.m_num_keys = 3
    /\ phf.m_table_size = 5
    /\ elias_fano_size(ser_phf.m_free_slots) = 2
    /\ single_phf_position_raw(ser_phf, murmurhash2_64(ser_ret.key, ser_phf.m_seed)) >= 3
    /\ ser_ret.val < 3

(* C9: the saver and the loader visit fields in the same fixed order given *)
(* by the serialization grammar: PHF = seed, num_keys, table_size, M_128,  *)
(* M_64, bucketer, pilots, free_slots; SkewBucketer = num_dense,           *)
(* num_sparse, M_dense, M_sparse; EliasFano = back, high_bits, darray1,    *)
(* darray0 (present even when empty), low_bits; Darray = positions,        *)
(* block_inventory, subblock_inventory, overflow_positions; CompactVector  *)
(* = size, width, mask, data; every vector is written as a u64 count       *)
(* followed by exactly count elements with no padding.                     *)
C9_VisitOrderIsGrammar ==
    /\ ser_ret.op = "saved" =>
           /\ FileBytes(0, ser_ret.container) = GrammarPHF(phf)
           /\ Len(ser_file) = ser_ret.container + 8 + 2 * phf.m_num_keys
    /\ (ser_ret.op = "load" /\ ser_ret.cut >= ser_ret.container) =>
           /\ ser_ret.pos = ser_ret.container
           /\ ser_phf.m_seed = FileBytes(0, 8)
           /\ ser_phf.m_num_keys = NatOfU64(FileBytes(8, 8))
           /\ ser_phf.m_table_size = NatOfU64(FileBytes(16, 8))
           /\ ser_phf.m_M_64 = FileBytes(40, 8)
           /\ ser_phf.m_bucketer.m_num_dense_buckets = NatOfU64(FileBytes(48, 8))
           /\ ser_phf.m_bucketer.m_num_sparse_buckets = NatOfU64(FileBytes(56, 8))
           /\ GrammarDualDictionary(ser_phf.m_pilots) \o GrammarEliasFano(ser_phf.m_free_slots)
                  = FileBytes(96, ser_ret.container - 96)

\* a file whose free slots have a darray1 that is not empty and a darray0
\* that is
C9_Witness ==
    /\ ser_ret.op = "saved"
    /\ phf.m_free_slots.m_high_bits_d1.m_positions = 2
    /\ Len(phf.m_free_slots.m_high_bits_d1.m_block_inventory) = 1
    /\ phf.m_free_slots.m_high_bits_d0 = darray_init
    /\ Len(phf.m_pilots.m_back.m_ranks.m_data) > 0

\* the whole file has been loaded
C9_WitnessLoad ==
    /\ ser_ret.op = "load"
    /\ ser_ret.cut >= ser_ret.container
    /\ ser_phf.m_free_slots.m_high_bits_d1.m_positions = 2

---------------------------------------------------------------------------
(* C6: for a compact_vector of n elements of width w built from values     *)
(* that each fit in w bits, access(i) and operator[](i) both return the    *)
(* value stored at i, which is the integer held in bits [i*w, (i+1)*w) of  *)
(* the packed word stream, for every i < n, elements that straddle a word  *)
(* boundary and w = 64 included.                                           *)
C6_AccessReturnsStored ==
    cv_ret.op \in {"access", "at"} =>
        /\ cv_ret.val = cv_in[cv_ret.i + 1]
        /\ cv_ret.val = StreamField(cv.m_data, cv_ret.i * cv.m_width, cv.m_width)

\* element 5 of width 12 occupies bits [60, 72) and is read across two words
C6_Witness ==
    /\ cv_ret.op = "access"
    /\ cv.m_width = 12
    /\ cv_ret.i = 5
    /\ cv_ret.val = ToBits((5 * 5000 + 600) % 4096)
    /\ \E b \in cv_ret.val : b >= 4

---------------------------------------------------------------------------
(* C5: after build(B), select(B, i) returns, for every i below             *)
(* num_positions(), the position of the (i+1)-th indexed bit of B (the     *)
(* 1-bits for the identity getter of darray1, the 0-bits for the negating  *)
(* getter of darray0), in dense blocks and in sparse blocks alike, and     *)
(* none of the 'return 0' error exits is taken.                            *)
C5_SelectIsNthIndexedBit ==
    (da_ret.op = "select" /\ da_ret.i < da.m_positions) =>
        /\ da_ret.path \in {"sparse", "dense start", "dense scan"}
        /\ da_ret.val < bv.num_bits
        /\ bv_get(bv, da_ret.val) = (da_t.getter = "identity")
        /\ Cardinality({q \in IndexedBits(bv, da_t.getter) : q < da_ret.val}) = da_ret.i

\* select(100) on the 250 bits that are 42 apart: subblock 3, reminder 4
C5_Witness ==
    /\ da_ret.op = "select"
    /\ da_t.getter = "identity"
    /\ da.m_positions = 250
    /\ da_ret.i = 100
    /\ da_ret.val = 4200
    /\ da_ret.path = "dense scan"

\* a zero found through the overflow positions of a sparse block of darray0
C5_WitnessSparse0 ==
    /\ da_ret.op = "select"
    /\ da_t.getter = "negating"
    /\ da_ret.path = "sparse"
    /\ da_ret.i < da.m_positions
    /\ da_ret.i >= da_t.block_size
    /\ da_ret.val > 65536

\* past the indexed bits select leaves through an error exit
C5_ErrorExitReached == ~(da_ret.op = "select" /\ da_ret.path = "error: next word")

---------------------------------------------------------------------------
(* C4: an elias_fano without prefix sums, encoded from a non-decreasing    *)
(* sequence v_0 <= ... <= v_(n-1) with the default universe or with a      *)
(* universe that is at least the last element, returns v_i from access(i)  *)
(* for every i < n, whether the low-bit width l is 0 or positive and also  *)
(* when n = 1.                                                             *)
C4_AccessReturnsElement ==
    (ef_ret.op = "access" /\ ~ef_t.encode_prefix_sum) =>
        /\ IsSorted(ef_in.vals)
        /\ ef_ret.val = ef_in.vals[ef_ret.i + 1]

\* access(9) of the basic test sequence, whose low bits are 2 wide
C4_Witness ==
    /\ ef_ret.op = "access"
    /\ ~ef_t.encode_prefix_sum
    /\ ef_in.vals = EfTestInput(1)
    /\ ef.m_low_bits.m_width = 2
    /\ ef_ret.i = 9
    /\ ef_ret.val = 50

C4_WitnessWidthZero ==
    /\ ef_ret.op = "access"
    /\ ~ef_t.encode_prefix_sum
    /\ ef.m_low_bits.m_width = 0
    /\ ef_ret.i = 35
    /\ ef_ret.val = 36

C4_WitnessSingle ==
    /\ ef_ret.op = "access"
    /\ ~ef_t.encode_prefix_sum
    /\ Len(ef_in.vals) = 1
    /\ ef_in.universe = 1100
    /\ ef_ret.val = 1000

---------------------------------------------------------------------------
(* C7 as stated: fastmod_u64(a, computeM_u64(d), d) is a mod d, and it is  *)
(* bits [127:64] of the product of (M*a mod 2^128) with d.                 *)
C7_AsStated ==
    (fm_ret.op = "fastmod_u64" /\ BigEq(fm.M, computeM_u64(fm.d))) =>
        /\ BigEq(fm_ret.val, BigDivMod(fm.a, fm.d).r)
        /\ BigEq(fm_ret.val, BigFit(BigHigh(BigMul(BigFit(BigMul(fm.M, fm.a), 16), fm.d), 8), 8))

(* C7 amended: fastmod_u64(a, computeM_u64(d), d) is a mod d for a in      *)
(* [0, 2^64) and d in [1, 2^64); the value computed,                       *)
(* ((low64(M*a)*d >> 64) + high64(M*a)*d) >> 64, is bits [191:128] of the  *)
(* 192-bit product of (M*a mod 2^128) with d.                              *)
C7_FastmodIsRemainder ==
    (fm_ret.op = "fastmod_u64" /\ BigEq(fm.M, computeM_u64(fm.d))) =>
        /\ BigEq(fm_ret.val, BigDivMod(fm.a, fm.d).r)
        /\ BigEq(fm_ret.val, BigFit(BigHigh(BigMul(BigFit(BigMul(fm.M, fm.a), 16), fm.d), 16), 8))
        /\ "expected_result" \in DOMAIN fm_ret => BigEq(fm_ret.val, fm_ret.expected_result)

\* the first test case: a mod 137 = 90 with the reciprocal of the test
C7_Witness ==
    /\ fm_ret.op = "fastmod_u64"
    /\ fm.d = Dec(<<1, 3, 7>>)
    /\ fm.a = FastModTestCase(1).a
    /\ fm.M = computeM_u64(fm.d)
    /\ fm.M = MakeM(FastModTestCase(1).m_high, FastModTestCase(1).m_low)
    /\ fm_ret.val = Dec(<<9, 0>>)

\* a divisor and a dividend that both use all 64 bits
C7_WitnessWide ==
    /\ fm_ret.op = "fastmod_u64"
    /\ fm.d = BigSub(U64Max, <<1>>, 8)
    /\ fm.a = U64Max
    /\ fm.M = computeM_u64(fm.d)
    /\ fm_ret.val = Dec(<<1>>)

\* C11: threads that run lookups at the same time on one function: no step
\* of a lookup writes the function or any of its parts, and the value a
\* lookup returns is the one that the lookup of its key returns when run
\* alone
C11_LookupsDoNotInterfere ==
    [][\A t \in Threads :
          thr'[t] # thr[t] /\ thr[t].pc # "idle" =>
              /\ phf' = phf
              /\ thr'[t].pc = "done" => thr'[t].val = single_phf_call(phf, thr[t].key, phf_t.Minimal)]_vars

\* two threads in the middle of lookups of different keys, one of them
\* in free_slots and the other with its value
C11_Witness ==
    \E t \in Threads : \E u \in Threads :
        /\ thr[t].pc = "done" /\ thr[t].val # thr[t].p
        /\ thr[u].pc = "low_bits" /\ thr[u].key # thr[t].key

\* C12: a load from a stream that ends before the container does fails
\* with the error ShortRead, and the caller is left with the function as
\* it was constructed, none of it loaded
C12_ShortReadIsFatal ==
    ser_ret.op = "load" /\ ser_ret.cut < ser_ret.container =>
        ser_ret.thrown = "ShortRead" /\ ser_phf = single_phf_init

\* a load from a cut container that returns as a load of the whole one
\* does, with some members loaded and the stream no longer good
C12_SilentPartialLoad ==
    /\ ser_ret.op = "load" /\ ser_ret.cut < ser_ret.container
    /\ ser_ret.thrown = "none" /\ ~ser_ret.good
    /\ ser_phf # single_phf_init

\* C13: the file that the build tool writes is the container of the
\* function, then value_count, the number of keys, as a u64, then
\* value_count values of 16 bits; the value at index lookup(keys[i]) is
\* values[i], for every i
C13_FileIsContainerThenValues ==
    ser_ret.op \in {"saved", "load", "lookup", "loaded"} =>
        /\ FileBytes(0, ser_ret.container) = essentials_save("single_phf", phf)
        /\ FileBytes(ser_ret.container, 8) = U64OfNat(Len(phf_keys))
        /\ Len(ser_file) = ser_ret.container + 8 + 2 * Len(phf_keys)
        /\ Len(ser_in) = Len(phf_keys)
        /\ \A i \in 1 .. Len(phf_keys) :
               FileBytes(ser_ret.container + 8 + 2 * single_phf_call(phf, phf_keys[i], phf_t.Minimal), 2)
                   = <<ser_in[i] % 256, ser_in[i] \div 256>>

\* a file written for several keys, the value of the first key not being
\* the first value of the file
C13_Witness ==
    /\ ser_ret.op = "saved"
    /\ Len(phf_keys) = MaxKeys
    /\ single_phf_call(phf, phf_keys[1], phf_t.Minimal) # 0
    /\ Len(ser_file) > ser_ret.container + 8

\* the slots that the keys of K are mapped to before the remap
PhfTaken == {single_phf_position_raw(phf, murmurhash2_64(k, phf.m_seed)) : k \in PhfK}

\* the values of m_free_slots, in their order
PhfFreeSlots ==
    [i \in 1 .. elias_fano_size(phf.m_free_slots) |-> elias_fano_access(phf.m_free_slots, i - 1, free_slots_t)]

\* C14, as stated: a minimal function holds table_size - num_keys free
\* slots, and they are the slots from num_keys on that no key is mapped
\* to, in ascending order
C14_AsStated ==
    (phf_ret.op = "ready" /\ phf_t.Minimal) =>
        /\ elias_fano_size(phf.m_free_slots) = phf.m_table_size - phf.m_num_keys
        /\ PhfFreeSlots = SortedSeq({p \in phf.m_num_keys .. (phf.m_table_size - 1) : p \notin PhfTaken},
                                    phf.m_num_keys, phf.m_table_size)

\* C14: a minimal function holds table_size - num_keys free slots, none
\* when num_keys = table_size, in ascending order; the one at index
\* p - num_keys, for a slot p from num_keys on that a key is mapped to, is
\* a slot below num_keys that no key is mapped to, another one for every
\* such p
C14_FreeSlotsFillTheHoles ==
    (phf_ret.op = "ready" /\ phf_t.Minimal) =>
        /\ elias_fano_size(phf.m_free_slots) = phf.m_table_size - phf.m_num_keys
        /\ \A i \in 1 .. (Len(PhfFreeSlots) - 1) : PhfFreeSlots[i] <= PhfFreeSlots[i + 1]
        /\ \A p \in PhfTaken :
               p >= phf.m_num_keys =>
                   /\ PhfFreeSlots[p - phf.m_num_keys + 1] < phf.m_num_keys
                   /\ PhfFreeSlots[p - phf.m_num_keys + 1] \notin PhfTaken
                   /\ \A q \in PhfTaken :
                          q >= phf.m_num_keys /\ q # p =>
                              PhfFreeSlots[q - phf.m_num_keys + 1] # PhfFreeSlots[p - phf.m_num_keys + 1]

\* a minimal function with two keys mapped to slots from num_keys on
C14_Witness ==
    /\ phf_ret.op = "ready" /\ phf_t.Minimal
    /\ phf.m_table_size > phf.m_num_keys
    /\ Cardinality({p \in PhfTaken : p >= phf.m_num_keys}) >= 2

\* a minimal function whose table has no slot beyond the keys
C14_WitnessFull ==
    /\ phf_ret.op = "ready" /\ phf_t.Minimal
    /\ phf.m_table_size = phf.m_num_keys /\ phf.m_num_keys = MaxKeys
    /\ elias_fano_size(phf.m_free_slots) = 0

---------------------------------------------------------------------------
(* The elias_fano queries                                                  *)

\* the sequence that the last encode stored
EfSequence == EfStored(ef_in.vals, ef_t)

\* C15: in prefix-sum mode, after encode of any sequence V of n values, sorted
\* or not, the stored sequence is [0, V0, V0+V1, ...] and diff(i) is V[i] for
\* every i < n; the 1 that diff finds by stepping on from the select position
\* of element i is the 1 of element i + 1, and diff(i) is access(i+1) - access(i)
C15_DiffReturnsOriginal ==
    ef_ret.op = "diff" =>
        /\ elias_fano_size(ef) = Len(ef_in.vals) + 1
        /\ \A k \in 0 .. Len(ef_in.vals) : elias_fano_access(ef, k, ef_t) = SumFirst(ef_in.vals, k)
        /\ ef_ret.val = ef_in.vals[ef_ret.i + 1]
        /\ ef_ret.val = elias_fano_access(ef, ef_ret.i + 1, ef_t) - elias_fano_access(ef, ef_ret.i, ef_t)
        /\ bit_vector_iterator_next(ef.m_high_bits,
                                    darray_select(ef.m_high_bits_d1, ef.m_high_bits, ef_ret.i, ef_t.DArray1).val + 1)
               = darray_select(ef.m_high_bits_d1, ef.m_high_bits, ef_ret.i + 1, ef_t.DArray1).val

\* a diff of an unsorted sequence, with low bits, whose two elements have
\* different high parts
C15_Witness ==
    /\ ef_ret.op = "diff"
    /\ ~IsSorted(ef_in.vals)
    /\ ef.m_low_bits.m_width > 0
    /\ ef_ret.val > Pow2(ef.m_low_bits.m_width)
    /\ ef_ret.i > 0

\* C16: with an index on zeros, next_geq(x) returns position and value of the
\* leftmost element that is >= x, and [size()-1, back()] when x > back(); the
\* scan starts at the first element whose high part is >= x >> l and never
\* goes past position size()-1
C16_NextGeqIsLeftmost ==
    ef_ret.op = "next_geq" =>
        LET S == EfSequence
            n == Len(S)
            l == ef.m_low_bits.m_width
        IN /\ ~ef_ret.past_the_end
           /\ ef_ret.x > S[n] => ef_ret.val = [pos |-> n - 1, val |-> S[n]]
           /\ ef_ret.x <= S[n] =>
                  /\ \E j \in 1 .. n : /\ S[j] >= ef_ret.x
                                       /\ \A k \in 1 .. (j - 1) : S[k] < ef_ret.x
                                       /\ ef_ret.val = [pos |-> j - 1, val |-> S[j]]
                  /\ next_geq_begin(ef, ef_ret.x \div Pow2(l), ef_t)
                         = Cardinality({k \in 1 .. n : S[k] \div Pow2(l) < ef_ret.x \div Pow2(l)})

\* a next_geq that scanned on from its start to a larger value that is there twice
C16_Witness ==
    /\ ef_ret.op = "next_geq"
    /\ ef_ret.val.val > ef_ret.x
    /\ ef_ret.val.pos + 2 <= Len(EfSequence)
    /\ EfSequence[ef_ret.val.pos + 2] = ef_ret.val.val
    /\ ef_ret.val.pos > next_geq_begin(ef, ef_ret.x \div Pow2(ef.m_low_bits.m_width), ef_t)

\* a next_geq of a value larger than back()
C16_WitnessSaturated ==
    /\ ef_ret.op = "next_geq"
    /\ ef_ret.x > ef.m_back
    /\ Len(EfSequence) > 1

\* C17: prev_leq(x) returns position and value of the rightmost element that is
\* <= x, [size()-1, back()] when x >= back(), and [2^64-1, 2^64-1] when x is
\* smaller than the first element
C17_PrevLeqIsRightmost ==
    ef_ret.op = "prev_leq" =>
        LET S == EfSequence
            n == Len(S)
        IN /\ ef_ret.x < S[1] => ef_ret.val = [pos |-> uint64_minus_1, val |-> uint64_minus_1]
           /\ ef_ret.x >= S[n] => ef_ret.val = [pos |-> n - 1, val |-> S[n]]
           /\ ef_ret.x >= S[1] =>
                  \E j \in 1 .. n : /\ S[j] <= ef_ret.x
                                    /\ \A k \in (j + 1) .. n : S[k] > ef_ret.x
                                    /\ ef_ret.val = [pos |-> j - 1, val |-> S[j]]

\* a prev_leq that stepped back from a larger element to a smaller value that
\* is there twice
C17_Witness ==
    /\ ef_ret.op = "prev_leq"
    /\ ef_ret.val.pos > 0
    /\ ef_ret.val.val < ef_ret.x
    /\ ef_ret.x < ef.m_back
    /\ EfSequence[ef_ret.val.pos] = ef_ret.val.val

\* a prev_leq of a value smaller than the first element
C17_WitnessBelowFront ==
    /\ ef_ret.op = "prev_leq"
    /\ ef_ret.x < EfSequence[1]

\* what the comment of locate gives for the sequence EfDocumented
LocateDocumented(x) ==
    CASE x = 0 -> [lo |-> [pos |-> uint64_minus_1, val |-> uint64_minus_1], hi |-> [pos |-> 0, val |-> 1]]
      [] x = 3 -> [lo |-> [pos |-> 2, val |-> 3], hi |-> [pos |-> 3, val |-> 4]]
      [] x = 6 -> [lo |-> [pos |-> 6, val |-> 6], hi |-> [pos |-> 7, val |-> 9]]
      [] x = 7 -> [lo |-> [pos |-> 6, val |-> 6], hi |-> [pos |-> 7, val |-> 9]]
      [] x = 17 -> [lo |-> [pos |-> 11, val |-> 17], hi |-> [pos |-> 11, val |-> 17]]
      [] x = 23 -> [lo |-> [pos |-> 11, val |-> 17], hi |-> [pos |-> uint64_minus_1, val |-> uint64_minus_1]]

\* C18: locate(x) returns prev_leq(x) as lo and the leftmost element that is
\* > x as hi, and on the sequence 1,3,3,4,5,6,6,9,12,14,17,17 it returns what
\* its comment gives for 0, 3, 6, 7, 17 and 23
C18_LocateAsDocumented ==
    ef_ret.op = "locate" =>
        LET S == EfSequence
            n == Len(S)
        IN /\ ef_ret.val.lo = elias_fano_prev_leq(ef, ef_ret.x, ef_t)
           /\ ef_ret.x < S[n] =>
                  \E j \in 1 .. n : /\ S[j] > ef_ret.x
                                    /\ \A k \in 1 .. (j - 1) : S[k] <= ef_ret.x
                                    /\ ef_ret.val.hi = [pos |-> j - 1, val |-> S[j]]
           /\ S = EfDocumented /\ ef_ret.x \in {0, 3, 6, 7, 17, 23} => ef_ret.val = LocateDocumented(ef_ret.x)

\* all of C18 but the documented locate(17)
C18_LocateButAtBack ==
    ef_ret.op = "locate" =>
        LET S == EfSequence
            n == Len(S)
        IN /\ ef_ret.val.lo = elias_fano_prev_leq(ef, ef_ret.x, ef_t)
           /\ ef_ret.x < S[n] =>
                  \E j \in 1 .. n : /\ S[j] > ef_ret.x
                                    /\ \A k \in 1 .. (j - 1) : S[k] <= ef_ret.x
                                    /\ ef_ret.val.hi = [pos |-> j - 1, val |-> S[j]]
           /\ S = EfDocumented /\ ef_ret.x \in {0, 3, 6, 7, 23} => ef_ret.val = LocateDocumented(ef_ret.x)

\* locate(17) on the documented sequence has no hi
C18_LocateOfBack ==
    /\ ef_ret.op = "locate"
    /\ EfSequence = EfDocumented
    /\ ef_ret.x = 17
    /\ ef_ret.val = [lo |-> [pos |-> 11, val |-> 17],
                     hi |-> [pos |-> uint64_minus_1, val |-> uint64_minus_1]]

\* C19: without prefix sums, encode fails with "sequence is not sorted" exactly
\* when some element is smaller than the one before it, and then the
\* elias_fano is as it was before the call
C19_NotSortedLeavesObject ==
    ef_ret.op = "encode" /\ ~ef_t.encode_prefix_sum =>
        /\ ef_ret.error = "sequence is not sorted" <=> ~IsSorted(ef_in.vals)
        /\ ~IsSorted(ef_in.vals) => ef = elias_fano_init

\* an unsorted input whose encode wrote outside the high bits before the check
C19_WriteBeforeCheck ==
    /\ ef_ret.op = "encode"
    /\ ~ef_t.encode_prefix_sum
    /\ ef_in.vals = <<1000, 0>>
    /\ ef_ret.error = "killed"

\* C19 for the calls that end as the code says
C19_WhenTheCallReturns ==
    ef_ret.op = "encode" /\ ~ef_t.encode_prefix_sum /\ ef_ret.error # "killed" =>
        /\ ef_ret.error = "sequence is not sorted" <=> ~IsSorted(ef_in.vals)
        /\ ~IsSorted(ef_in.vals) => ef = elias_fano_init

---------------------------------------------------------------------------
(* skew_bucketer::bucket                                                   *)

\* hash mod d for d > 0
BkMod(hash, d) == NatOfU64(BigDivMod(hash, U64OfNat(d)).r)

C20_WitnessDense ==
    /\ bk_ret.op = "bucket"
    /\ BigLess(bk_ret.hash, skew_T)
    /\ bk_ret.val > 0

\* C21: after init(num_buckets) with num_buckets >= 1, num_dense + num_sparse
\* is num_buckets and bucket(h) is below num_buckets() for every h; without
\* dense buckets (num_buckets <= 3) the dense reciprocal is 0, no reciprocal is
\* computed for the divisor 0, and bucket returns without a division
C21_BucketBelowNumBuckets ==
    bk_ret.op # "none" =>
        /\ bk.m_num_dense_buckets + bk.m_num_sparse_buckets = bk_ret.num_buckets
        /\ skew_bucketer_num_buckets(bk) = bk_ret.num_buckets
        /\ bk.m_num_sparse_buckets > 0
        /\ bk.m_M_num_sparse_buckets = computeM_u64(U64OfNat(bk.m_num_sparse_buckets))
        /\ bk.m_num_dense_buckets = 0 <=> bk_ret.num_buckets <= 3
        /\ IF bk.m_num_dense_buckets = 0
           THEN bk.m_M_num_dense_buckets = BigZero(16)
           ELSE bk.m_M_num_dense_buckets = computeM_u64(U64OfNat(bk.m_num_dense_buckets))
        /\ bk_ret.op = "bucket" => bk_ret.val \in 0 .. (bk_ret.num_buckets - 1)

\* a bucket call for a hash below T on a bucketer without dense buckets
C21_Witness ==
    /\ bk_ret.op = "bucket"
    /\ bk_ret.num_buckets = 3
    /\ bk.m_num_dense_buckets = 0
    /\ BigLess(bk_ret.hash, skew_T)
    /\ bk_ret.hash # BigZero(8)

\* a bucket call that returned the last bucket
C21_WitnessLast ==
    /\ bk_ret.op = "bucket"
    /\ bk.m_num_dense_buckets > 0
    /\ bk_ret.val = bk_ret.num_buckets - 1

---------------------------------------------------------------------------
(* darray::build                                                           *)

\* the positions that build collected, in order
DaPositions == SortedSeq(IndexedBits(bv, da_t.getter), 0, bv.num_bits)

\* the number of blocks that build flushed, P being the positions
DaNumBlocks(P) == CeilDiv(Len(P), da_t.block_size)

\* the index in P of the first position of block b (from 0), less one
DaFirst(b) == b * da_t.block_size

\* the number of positions of block b when it was flushed
DaBlockLen(P, b) == IF (b + 1) * da_t.block_size < Len(P) THEN da_t.block_size ELSE Len(P) - DaFirst(b)

\* last position minus first position of block b
DaSpan(P, b) == P[DaFirst(b) + DaBlockLen(P, b)] - P[DaFirst(b) + 1]

\* the number of positions in the blocks before block b with a span of at least 2^16
RECURSIVE DaOverflowBefore(_, _)
DaOverflowBefore(P, b) ==
    IF b = 0 THEN 0
    ELSE DaOverflowBefore(P, b - 1) + (IF DaSpan(P, b - 1) >= 65536 THEN DaBlockLen(P, b - 1) ELSE 0)

\* the index in subblock_inventory of the first entry of block b, less one
DaFirstSubblock(b) == b * (da_t.block_size \div da_t.subblock_size)

\* C22: a flushed block, full or the final shorter one, with last - first
\* below 2^16 is dense: block_inventory gets first and subblock_inventory
\* gets positions[k * subblock_size] - first for every k * subblock_size
\* below the block length; any other block is sparse: block_inventory gets
\* -(overflow_positions.size()) - 1 as it is before the append, the
\* positions are appended to overflow_positions in order and
\* subblock_inventory gets one 0xFFFF per subblock_size positions
C22_FlushStoresBlock ==
    da_ret.op = "build" =>
        LET P == DaPositions
        IN InOrder(<<P>>,
            /\ Len(da.m_block_inventory) = DaNumBlocks(P)
            /\ \A b \in 0 .. (DaNumBlocks(P) - 1) :
                   IF DaSpan(P, b) < 65536
                   THEN /\ da.m_block_inventory[b + 1] = P[DaFirst(b) + 1]
                        /\ \A k \in 1 .. CeilDiv(DaBlockLen(P, b), da_t.subblock_size) :
                               da.m_subblock_inventory[DaFirstSubblock(b) + k]
                                   = P[DaFirst(b) + (k - 1) * da_t.subblock_size + 1] - P[DaFirst(b) + 1]
                   ELSE /\ da.m_block_inventory[b + 1] = (0 - DaOverflowBefore(P, b)) - 1
                        /\ \A k \in 1 .. DaBlockLen(P, b) :
                               da.m_overflow_positions[DaOverflowBefore(P, b) + k] = P[DaFirst(b) + k]
                        /\ \A k \in 1 .. CeilDiv(DaBlockLen(P, b), da_t.subblock_size) :
                               da.m_subblock_inventory[DaFirstSubblock(b) + k] = 65535
            /\ Len(da.m_overflow_positions) = DaOverflowBefore(P, DaNumBlocks(P))
            /\ Len(da.m_subblock_inventory) = CeilDiv(Len(P), da_t.subblock_size))

\* a build of the small instantiation that flushed a full sparse block and
\* then a final shorter block that is sparse too
C22_Witness ==
    /\ da_ret.op = "build"
    /\ da_t.block_size = 4
    /\ da.m_positions = 6
    /\ da.m_block_inventory = <<0 - 1, 0 - 5>>
    /\ da.m_subblock_inventory = <<65535, 65535, 65535>>
    /\ Len(da.m_overflow_positions) = 6

\* a final shorter block of span 65535, dense, whose last subblock offset
\* is 65535
C22_WitnessDense ==
    /\ da_ret.op = "build"
    /\ da.m_positions = 3
    /\ da.m_block_inventory = <<0>>
    /\ da.m_subblock_inventory = <<0, 65535>>

\* a build with the template defaults that flushed a full block of 1024
\* that is sparse
C22_WitnessFull ==
    /\ da_ret.op = "build"
    /\ da_t.block_size = 1024
    /\ Len(da.m_block_inventory) = 2
    /\ da.m_block_inventory[1] < 0
    /\ Len(da.m_overflow_positions) = 1024

\* C23 as stated: a block is stored as sparse exactly when its span, last
\* position minus first position, exceeds 65536
C23_AsStated ==
    da_ret.op = "build" =>
        LET P == DaPositions
        IN InOrder(<<P>>, \A b \in 0 .. (DaNumBlocks(P) - 1) :
                              (da.m_block_inventory[b + 1] < 0) <=> (DaSpan(P, b) > 65536))

\* C23: a block is stored as sparse exactly when its span, last position
\* minus first position, is at least 65536
C23_SparseFromSpan65536 ==
    da_ret.op = "build" =>
        LET P == DaPositions
        IN InOrder(<<P>>, \A b \in 0 .. (DaNumBlocks(P) - 1) :
                              (da.m_block_inventory[b + 1] < 0) <=> (DaSpan(P, b) >= 65536))

\* a build with a block of span 65536, stored sparse, and a block of span
\* 65535, stored dense
C23_Witness ==
    /\ da_ret.op = "build"
    /\ Len(da.m_block_inventory) = 2
    /\ DaSpan(DaPositions, 0) = 65536
    /\ da.m_block_inventory[1] < 0
    /\ DaSpan(DaPositions, 1) = 65535
    /\ da.m_block_inventory[2] >= 0

\* C30: after build(B) on a freshly constructed darray, with m the number of
\* indexed bits below B.num_bits(): num_positions() is m, block_inventory has
\* ceil(m / block_size) entries and subblock_inventory ceil(m / subblock_size);
\* a dense block has the position of its first indexed bit as entry and
\* subblock offsets below 2^16, stored as they are; a sparse block has an
\* entry e < 0 with -e-1 plus its length within overflow_positions; and
\* select never reads a subblock entry of a sparse block
C30_BuildInvariants ==
    da_ret.op # "none" =>
        LET P == DaPositions
        IN InOrder(<<P>>,
            /\ da.m_positions = Cardinality(IndexedBits(bv, da_t.getter))
            /\ Len(da.m_block_inventory) = CeilDiv(da.m_positions, da_t.block_size)
            /\ Len(da.m_subblock_inventory) = CeilDiv(da.m_positions, da_t.subblock_size)
            /\ \A b \in 0 .. (DaNumBlocks(P) - 1) :
                   IF da.m_block_inventory[b + 1] >= 0
                   THEN /\ da.m_block_inventory[b + 1] = P[DaFirst(b) + 1]
                        /\ bv_get(bv, da.m_block_inventory[b + 1]) = (da_t.getter = "identity")
                        /\ \A k \in 1 .. CeilDiv(DaBlockLen(P, b), da_t.subblock_size) :
                               /\ da.m_subblock_inventory[DaFirstSubblock(b) + k] < 65536
                               /\ da.m_subblock_inventory[DaFirstSubblock(b) + k]
                                      = P[DaFirst(b) + (k - 1) * da_t.subblock_size + 1] - P[DaFirst(b) + 1]
                   ELSE ((0 - da.m_block_inventory[b + 1]) - 1) + DaBlockLen(P, b) <= Len(da.m_overflow_positions)
            /\ (da_ret.op = "select" /\ da_ret.i < da.m_positions) =>
                   (da.m_block_inventory[da_ret.i \div da_t.block_size + 1] < 0 <=> da_ret.path = "sparse"))

\* a select in a sparse block that follows a dense block, on a darray0
\* whose last word has padding bits
C30_Witness ==
    /\ da_ret.op = "select"
    /\ da_t.getter = "negating"
    /\ bv.num_bits % 64 # 0
    /\ da_ret.i < da.m_positions
    /\ da_ret.path = "sparse"
    /\ da.m_block_inventory[1] >= 0
    /\ da.m_block_inventory[2] < 0
    /\ da_ret.i \div da_t.block_size = 1

\* the exits of select taken when the scan of a dense block leaves the words
\* of the bit vector
DaPastTheEnd == {"error: first word", "error: next word", "error: scan limit"}

\* C25: a select whose scan advances past the end of the bit vector is
\* reported as the error CorruptSelect and hands no position back
C25_CorruptSelectIsReported ==
    (da_ret.op = "select" /\ da_ret.path \in DaPastTheEnd) =>
        /\ "error" \in DOMAIN da_ret
        /\ da_ret.error = "CorruptSelect"
        /\ "val" \notin DOMAIN da_ret

\* a select below num_positions() on a bit vector that lost its end: the
\* scan left the last word and select returned position 0
C25_SelectReturnsZero ==
    /\ da_ret.op = "select"
    /\ da_ret.i < da.m_positions
    /\ da_ret.i > 0
    /\ da_ret.path = "error: next word"
    /\ da_ret.val = 0
    /\ "error" \notin DOMAIN da_ret

\* whatever was loaded, select returns a position and no error
C25_SelectAlwaysReturns ==
    da_ret.op = "select" => "val" \in DOMAIN da_ret /\ "error" \notin DOMAIN da_ret

\* the universe of the last encode: the total in prefix-sum mode, the last
\* value when the argument is left at its default
EfUniverse(S) ==
    IF ef_t.encode_prefix_sum \/ ef_in.universe = UniverseDefault THEN S[Len(S)] ELSE ef_in.universe

FloorLog2(q) == CHOOSE b \in 0 .. 30 : Pow2(b) <= q /\ q < Pow2(b + 1)

EfLowWidth(U, n) == IF U \div n > 0 THEN FloorLog2(U \div n) ELSE 0

EfLayout(S, n, U, l) ==
    /\ ef.m_low_bits.m_size = n
    /\ ef.m_low_bits.m_width = l
    /\ ef.m_high_bits.num_bits = n + (U \div Pow2(l)) + 1
    /\ ef.m_high_bits.fill = 0
    /\ Cardinality(ef.m_high_bits.diff) = n
    /\ ef.m_high_bits.diff = {(S[i + 1] \div Pow2(l)) + i : i \in 0 .. n - 1}
    /\ \A i \in 0 .. n - 1 :
          /\ (S[i + 1] \div Pow2(l)) + i < ef.m_high_bits.num_bits
          /\ \A j \in 0 .. i - 1 : (S[j + 1] \div Pow2(l)) + j < (S[i + 1] \div Pow2(l)) + i
          /\ darray_select(ef.m_high_bits_d1, ef.m_high_bits, i, ef_t.DArray1).val - i = S[i + 1] \div Pow2(l)

\* C24: after encode of n >= 1 non-decreasing values with universe U >= the
\* last value, l = floor(log2(U div n)) (0 when U div n = 0), low_bits has
\* size n and width l, high_bits has n + (U >> l) + 1 bits of which exactly
\* n are set, the i-th at (v_i >> l) + i < num_bits, and select1(i) - i is
\* v_i >> l; in prefix-sum mode the same for the n + 1 prefix sums
C24_EncodeLayout ==
    (ef_ret.op = "encode" /\ ef_ret.error = "none" /\ Len(ef_in.vals) >= 1) =>
        LET S == EfStored(ef_in.vals, ef_t)
            U == EfUniverse(S)
        IN InOrder(<<S, U>>, EfLayout(S, Len(S), U, EfLowWidth(U, Len(S))))

\* three values with low bits (l = 4) and an explicit universe
C24_Witness ==
    /\ ef_ret.op = "encode"
    /\ ef_ret.error = "none"
    /\ ~ef_t.encode_prefix_sum
    /\ ef_in = [vals |-> <<3, 64, 64>>, universe |-> 64]
    /\ ef.m_low_bits.m_width = 4
    /\ ef.m_high_bits.num_bits = 8
    /\ ef.m_high_bits.diff = {0, 5, 6}

\* prefix-sum mode: the sums 0, 1000, 1003 with low bits of width 8
C24_WitnessPrefixSum ==
    /\ ef_ret.op = "encode"
    /\ ef_t.encode_prefix_sum
    /\ ef_in.vals = <<1000, 3>>
    /\ ef.m_low_bits.m_size = 3
    /\ ef.m_low_bits.m_width = 8
    /\ ef.m_high_bits.diff = {0, 4, 5}

\* C26: a compact_vector produced by its builder for n elements of width w
\* has ceil(n * w / 64) + 1 words; every word read by operator[](i) and
\* access(i), i < n, and by the enumerator up to and including position n
\* is one of them, and access never takes its branch for a missing word
C26_ReadsInsideData ==
    cv_ret.op # "none" /\ ~("error" \in DOMAIN cv_ret /\ cv_ret.error # "none") =>
        /\ Len(cv.m_data) = CeilDiv(cv.m_size * cv.m_width, 64) + 1
        /\ \A i \in 0 .. cv.m_size - 1 :
              /\ \A k \in compact_vector_at_words(cv, i) : k < Len(cv.m_data)
              /\ ~compact_vector_access_fallback(cv, i)
        /\ "words" \in DOMAIN cv_ret => \A k \in cv_ret.words : k < Len(cv.m_data)

\* the enumerator advanced to position size() after an element that
\* crosses a word: the read there takes the last word
C26_Witness ==
    /\ cv_ret.op = "++"
    /\ cv.m_width = 33
    /\ cv.m_size = 3
    /\ cv_it.m_i = 3
    /\ cv_ret.words = {1, 2}
    /\ Len(cv.m_data) = 3

\* width 64: the read at position size() is of the added word
C26_WitnessFullWidth ==
    /\ cv_ret.op = "++"
    /\ cv.m_width = 64
    /\ cv_it.m_i = cv.m_size
    /\ cv_ret.words = {cv.m_size}

\* C27: an enumerator at a position below size(), however it got there
\* (created there, advanced with ++, moved with --, + or -), holds the
\* element that access returns for that position
C27_EnumeratorYieldsAccess ==
    cv_it.m_vec = "cv" /\ cv_it.m_i < cv.m_size =>
        /\ cv_it.m_cur_val = compact_vector_access(cv, cv_it.m_i)
        /\ cv_it.m_cur_val = cv_in[cv_it.m_i + 1]

\* ++ onto an element of width 12 that crosses from word 0 into word 1
C27_Witness ==
    /\ cv_ret.op = "++"
    /\ cv.m_width = 12
    /\ cv_it.m_i = 5
    /\ cv_ret.words = {0, 1}
    /\ cv_it.m_cur_val # Zero
    /\ cv_it.m_cur_block = 1
    /\ cv_it.m_cur_shift = 8

\* ++ onto an element of width 64, which ends on a word boundary
C27_WitnessOnBoundary ==
    /\ cv_ret.op = "++"
    /\ cv.m_width = 64
    /\ cv_it.m_i = 2
    /\ cv.m_size > 2
    /\ cv_it.m_cur_block = 3
    /\ cv_it.m_cur_shift = 0
    /\ cv_it.m_cur_val # Zero

\* it - 5 from the end onto a non-zero element
C27_WitnessMinus ==
    /\ cv_ret.op = "-"
    /\ cv_ret.jump = 5
    /\ cv_it.m_i + 5 = cv.m_size
    /\ cv_it.m_cur_val # Zero

\* element i of a builder, read as operator[] reads it from the same fields
CvbElement(b, i) == compact_vector_at(builder_build(b), i)

\* C28: set(i, v) with i < size and v <= mask makes element i read back as
\* v, whatever it held, and leaves every other element reading what it read
\* before, the neighbours in the same 64-bit word included
C28_SetFrame ==
    [][cv_ret'.op = "set" =>
          /\ cvb'.m_size = cvb.m_size
          /\ cvb'.m_width = cvb.m_width
          /\ \A j \in 0 .. cvb.m_size - 1 :
                /\ CvbElement(cvb', j) = IF j = cv_ret'.i THEN cv_ret'.v ELSE CvbElement(cvb, j)
                /\ CvbElement(cvb', j) = StreamField(cvb'.m_data, j * cvb.m_width, cvb.m_width)]_vars

\* element 1 of width 24, between elements 0 and 2 in word 0, goes from
\* all ones to its odd bits
C28_Witness ==
    /\ cv_ret.op = "set"
    /\ cvb.m_width = 24
    /\ cvb.m_size = 3
    /\ cv_ret.i = 1
    /\ cv_ret.old = cv_mask(24)
    /\ cv_ret.v = CbOdd(24)
    /\ cv_in = <<cv_mask(24), CbOdd(24), cv_mask(24)>>
    /\ CvbElement(cvb, 1) = CbOdd(24)

\* element 1 of width 33, which crosses from word 0 into word 1, is
\* overwritten
C28_WitnessCrossing ==
    /\ cv_ret.op = "set"
    /\ cvb.m_width = 33
    /\ cvb.m_size = 3
    /\ cv_ret.i = 1
    /\ cv_ret.old = cv_mask(33)
    /\ cv_ret.v = CbOdd(33)
    /\ cv_in[1] # Zero
    /\ cv_in[3] # Zero

\* C29: reduce_width_by(k), 0 < k < width, leaves the size, makes the
\* width the old width minus k and m_data ceil(size * width / 64) + 1 words
\* long, and every element its old value modulo 2^width
C29_ReduceWidthBy ==
    [][cv_ret'.op = "reduce_width_by" =>
          /\ cvb'.m_width = cvb.m_width - cv_ret'.n
          /\ cvb'.m_size = cvb.m_size
          /\ cvb'.m_mask = LowOnes(cvb'.m_width)
          /\ Len(cvb'.m_data) = CeilDiv(cvb'.m_size * cvb'.m_width, 64) + 1
          /\ \A i \in 0 .. cvb.m_size - 1 :
                /\ CvbElement(cvb', i) = {b \in CvbElement(cvb, i) : b < cvb'.m_width}
                /\ CvbElement(cvb', i) = cv_in'[i + 1]]_vars

\* three elements of width 33, all ones, reduced to width 25
C29_Witness ==
    /\ cv_ret.op = "reduce_width_by"
    /\ cv_ret.old_width = 33
    /\ cv_ret.n = 8
    /\ cvb.m_width = 25
    /\ cvb.m_size = 3
    /\ cv_in = <<cv_mask(25), cv_mask(25), cv_mask(25)>>
    /\ Len(cvb.m_data) = 3

\* two elements of width 33, all ones, reduced to width 32: m_data loses
\* a word
C29_WitnessShrinks ==
    /\ cv_ret.op = "reduce_width_by"
    /\ cv_ret.old_width = 33
    /\ cvb.m_width = 32
    /\ cvb.m_size = 2
    /\ Len(cvb.m_data) = 2
    /\ cv_in = <<cv_mask(32), cv_mask(32)>>
    /\ CvbElement(cvb, 1) = cv_mask(32)

=============================================================================
